---- MODULE Spec2Model ----
(***************************************************************************)
(* Model of the sebuf protoc plugins (rust/): the shared plugin transport  *)
(* (sebuf-core/src/plugin.rs), the code assembly buffer                    *)
(* (sebuf-core/src/codegen.rs), the type and naming resolver               *)
(* (sebuf-core/src/parser.rs) and the three emitters                       *)
(* (protoc-gen-rust-oneof-helper, protoc-gen-rust-openapiv3,               *)
(* protoc-gen-rust-http).                                                  *)
(*                                                                         *)
(* Text is modelled as TLA+ strings, read character by character with      *)
(* SubSeq and built with \o, so that the naming conversions are computed   *)
(* the way the heck crate computes them.  Option<String> values that the   *)
(* schema compiler always fills in (names) are modelled as the string.     *)
(***************************************************************************)
EXTENDS Integers, Sequences, FiniteSets, TLC

VARIABLES
    hash_keys,  \* the keys std's RandomState drew for the HashMaps of this process
    plugin,     \* which plugin binary runs: "oneof", "openapi" or "http"
    stdin,      \* what the input stream delivers: "ok", "read_error", "garbage"
    request,    \* the CodeGeneratorRequest encoded on stdin
    pc,         \* position of run_plugin / Plugin::process
    idx,        \* number of entries of the process loop already visited
    proto_file, \* the file of the latest turn of the process loop
    generated,  \* what the latest turn got from the generator to push
    response,   \* CodeGeneratorResponse.file being built by process
    features,   \* CodeGeneratorResponse.supported_features (0 = unset)
    stdout,     \* sequence of responses written to the output stream
    result,     \* what main returns: "running", "ok", or the PluginError kind
    mapped_field, \* the FieldDescriptorProto handed to the code-type projections
    mapped_type,  \* what TypeMapper and the oneof emitter returned for it
    cased_ident,  \* the schema identifier handed to an identifier-case projection
    cased_name,   \* which projection was applied, and its first and second result
    code_gen,     \* a CodeGenerator: its imports and its items
    calls,        \* the add_import and add_item calls made on it, in order
    code_text     \* what generate returned: <<>> before the call, <<text>> after

\* the variables of a resolver call (sebuf-core/src/parser.rs used as a library)
resolver_vars == <<mapped_field, mapped_type, cased_ident, cased_name>>

\* the variables of a use of CodeGenerator (sebuf-core/src/codegen.rs)
codegen_vars == <<code_gen, calls, code_text>>

\* the variables of a plugin run
run_vars == <<hash_keys, plugin, stdin, request, pc, idx, proto_file, generated, response, features,
              stdout, result>>

vars == <<hash_keys, plugin, stdin, request, pc, idx, proto_file, generated, response, features,
          stdout, result, mapped_field, mapped_type, cased_ident, cased_name,
          code_gen, calls, code_text>>

-----------------------------------------------------------------------------
(* Characters and strings                                                  *)

lowerAlpha == "abcdefghijklmnopqrstuvwxyz"
upperAlpha == "ABCDEFGHIJKLMNOPQRSTUVWXYZ"
digitAlpha == "0123456789"

Ch(s, i) == SubSeq(s, i, i)

CharsOf(alpha) == { Ch(alpha, i) : i \in 1..Len(alpha) }

LowerChars == CharsOf(lowerAlpha)
UpperChars == CharsOf(upperAlpha)
DigitChars == CharsOf(digitAlpha)

IsLower(c) == c \in LowerChars
IsUpper(c) == c \in UpperChars
IsAlnum(c) == c \in LowerChars \cup UpperChars \cup DigitChars

PosIn(alpha, c) == CHOOSE i \in 1..Len(alpha) : Ch(alpha, i) = c

ToLowerCh(c) == IF IsUpper(c) THEN Ch(lowerAlpha, PosIn(upperAlpha, c)) ELSE c
ToUpperCh(c) == IF IsLower(c) THEN Ch(upperAlpha, PosIn(lowerAlpha, c)) ELSE c

RECURSIVE ToLowerStr(_)
ToLowerStr(s) ==
    IF Len(s) = 0 THEN "" ELSE ToLowerCh(Ch(s, 1)) \o ToLowerStr(Tail(s))

\* heck's capitalize: first character upper case, the rest lower case
Capitalize(s) ==
    IF Len(s) = 0 THEN "" ELSE ToUpperCh(Ch(s, 1)) \o ToLowerStr(Tail(s))

EndsWith(s, suffix) ==
    /\ Len(suffix) <= Len(s)
    /\ SubSeq(s, Len(s) - Len(suffix) + 1, Len(s)) = suffix

RECURSIVE ReplaceAll(_, _, _)
\* str::replace(from, to) for a non-empty pattern
ReplaceAll(s, from, to) ==
    IF Len(s) < Len(from) THEN s
    ELSE IF SubSeq(s, 1, Len(from)) = from
         THEN to \o ReplaceAll(SubSeq(s, Len(from) + 1, Len(s)), from, to)
         ELSE Ch(s, 1) \o ReplaceAll(Tail(s), from, to)

RECURSIVE TrimStartDots(_)
\* str::trim_start_matches('.')
TrimStartDots(s) ==
    IF Len(s) > 0 /\ Ch(s, 1) = "." THEN TrimStartDots(Tail(s)) ELSE s

RECURSIVE LastDotComponentFrom(_, _)
LastDotComponentFrom(s, i) ==
    IF i = 0 THEN s
    ELSE IF Ch(s, i) = "." THEN SubSeq(s, i + 1, Len(s))
    ELSE LastDotComponentFrom(s, i - 1)

\* s.split('.').last(): the text after the last dot (the whole text if none)
LastDotComponent(s) == LastDotComponentFrom(s, Len(s))

-----------------------------------------------------------------------------
(* heck: word segmentation shared by to_snake_case and to_upper_camel_case *)

RECURSIVE HeckWords(_, _, _, _, _)
\* s is scanned from character i; init is where the current word starts;
\* mode is "B" (boundary), "L" (lowercase) or "U" (uppercase); acc collects
\* the words.  Non-alphanumeric characters separate words and are dropped.
HeckWords(s, i, init, mode, acc) ==
    IF i > Len(s) THEN acc
    ELSE LET c == Ch(s, i) IN
         IF ~IsAlnum(c) THEN HeckWords(s, i + 1, i + 1, "B", acc)
         ELSE IF i = Len(s) \/ ~IsAlnum(Ch(s, i + 1))
              THEN HeckWords(s, i + 1, i + 1, "B", Append(acc, SubSeq(s, init, i)))
         ELSE LET next == Ch(s, i + 1)
                  next_mode == IF IsLower(c) THEN "L"
                               ELSE IF IsUpper(c) THEN "U" ELSE mode
              IN  IF next_mode = "L" /\ IsUpper(next)
                  THEN HeckWords(s, i + 1, i + 1, "B", Append(acc, SubSeq(s, init, i)))
                  ELSE IF mode = "U" /\ IsUpper(c) /\ IsLower(next)
                  THEN HeckWords(s, i + 1, i, "B", Append(acc, SubSeq(s, init, i - 1)))
                  ELSE HeckWords(s, i + 1, init, next_mode, acc)

RECURSIVE JoinWith(_, _)
JoinWith(words, sep) ==
    IF Len(words) = 0 THEN ""
    ELSE IF Len(words) = 1 THEN words[1]
    ELSE words[1] \o sep \o JoinWith(Tail(words), sep)

MapSeq(Op(_), s) == [ i \in 1..Len(s) |-> Op(s[i]) ]

to_snake_case(s) == JoinWith(MapSeq(ToLowerStr, HeckWords(s, 1, 1, "B", <<>>)), "_")

to_upper_camel_case(s) == JoinWith(MapSeq(Capitalize, HeckWords(s, 1, 1, "B", <<>>)), "")

-----------------------------------------------------------------------------
(* Descriptors (prost_types): the read-only input schema                   *)

\* FieldDescriptorProto; oneof_index = -1 models None, type_name = "" None
Fld(name, type, type_name, label, proto3_optional, oneof_index) ==
    [ name |-> name, type |-> type, type_name |-> type_name, label |-> label,
      proto3_optional |-> proto3_optional, oneof_index |-> oneof_index ]

\* DescriptorProto; oneof_decl holds the names of the OneofDescriptorProtos
Msg(name, field, oneof_decl, nested_type) ==
    [ name |-> name, field |-> field, oneof_decl |-> oneof_decl,
      nested_type |-> nested_type ]

\* EnumDescriptorProto; value holds the symbol names
Enm(name, value) == [ name |-> name, value |-> value ]

\* MethodDescriptorProto; options tells whether MethodOptions is present
Mth(name, input_type, output_type, options) ==
    [ name |-> name, input_type |-> input_type, output_type |-> output_type,
      options |-> options ]

\* ServiceDescriptorProto; options tells whether ServiceOptions is present,
\* headers is the header metadata the options carry (none: <<>>)
Svc(name, method, options) ==
    [ name |-> name, method |-> method, options |-> options, headers |-> <<>> ]

\* HeaderConfig, as far as the generator reads it
HeaderConfig(name, required) == [ name |-> name, required |-> required ]

\* a service whose options carry header metadata (ServiceHeaders.required)
SvcWithHeaders(name, method, headers) ==
    [ name |-> name, method |-> method, options |-> TRUE, headers |-> headers ]

\* FileDescriptorProto
File(name, package, message_type, enum_type, service) ==
    [ name |-> name, package |-> package, message_type |-> message_type,
      enum_type |-> enum_type, service |-> service ]

\* CodeGeneratorRequest
Req(files, file_to_generate) ==
    [ proto_file |-> files, file_to_generate |-> file_to_generate ]

RECURSIVE Flatten(_)
Flatten(ss) == IF Len(ss) = 0 THEN <<>> ELSE ss[1] \o Flatten(Tail(ss))

SeqContains(s, x) == \E i \in 1..Len(s) : s[i] = x

SelectIdx(s, Keep(_)) ==
    LET RECURSIVE Go(_)
        Go(i) == IF i > Len(s) THEN <<>>
                 ELSE IF Keep(i) THEN <<s[i]>> \o Go(i + 1) ELSE Go(i + 1)
    IN  Go(1)

-----------------------------------------------------------------------------
(* sebuf-core/src/codegen.rs: the code assembly buffer                     *)

\* proc_macro2 tokens that the emitters interpolate into quote! templates:
\* an identifier (format_ident!) or a string literal (a String or &str
\* interpolated with #var)
Ident(text) == [ tok |-> "ident", text |-> text ]
StrLit(text) == [ tok |-> "str", text |-> text ]

\* the words syn refuses as an identifier (strict and reserved keywords)
RustKeywords ==
    { "abstract", "as", "async", "await", "become", "box", "break", "const",
      "continue", "crate", "do", "dyn", "else", "enum", "extern", "false",
      "final", "fn", "for", "if", "impl", "in", "let", "loop", "macro",
      "match", "mod", "move", "mut", "override", "priv", "pub", "ref",
      "return", "self", "Self", "static", "struct", "super", "trait", "true",
      "try", "type", "typeof", "unsafe", "unsized", "use", "virtual", "where",
      "while", "yield" }

\* a token standing where the grammar wants an identifier (or a path made
\* of one identifier, which is what the emitters put in type position)
IsIdentToken(t) == t.tok = "ident" /\ t.text \notin RustKeywords

AllOf(s, P(_)) == \A i \in 1..Len(s) : P(s[i])

\* syn::parse_file on one rendered declaration, by the kind of declaration:
\* it parses iff every token in identifier or type position is a
\* non-keyword identifier (the fixed text of the templates always parses)
ItemParses(item) ==
    CASE item.kind = "use" -> TRUE
      [] item.kind = "fn" ->
            /\ IsIdentToken(item.name)
            /\ AllOf(item.params, LAMBDA p : IsIdentToken(p.name) /\ IsIdentToken(p.ty))
            /\ IsIdentToken(item.ret)
            /\ IsIdentToken(item.oneof_field)
            /\ IsIdentToken(item.variant)
            /\ IsIdentToken(item.inner_type)
            /\ AllOf(item.assignments, IsIdentToken)
      [] item.kind = "trait" ->
            /\ IsIdentToken(item.name)
            /\ AllOf(item.methods, LAMBDA m :
                   IsIdentToken(m.name) /\ IsIdentToken(m.input) /\ IsIdentToken(m.output))
      [] item.kind = "router" ->
            /\ IsIdentToken(item.name)
            /\ IsIdentToken(item.bound)
            /\ AllOf(item.routes, LAMBDA r :
                   r.path.tok = "str" /\ IsIdentToken(r.method_fn) /\ IsIdentToken(r.handler))
      [] item.kind = "handler" ->
            /\ IsIdentToken(item.name)
            /\ IsIdentToken(item.bound)
            /\ IsIdentToken(item.trait_method)
            /\ IsIdentToken(item.input)
      [] item.kind = "middleware" ->
            AllOf(item.validations, LAMBDA v : v.tok = "str")

\* syn::parse_file(&file_str).is_ok()
ParsesAsRust(decls) == AllOf(decls, ItemParses)

\* CodeGenerator::new
NewCodeGenerator == [ imports |-> <<>>, items |-> <<>> ]

\* CodeGenerator::add_import: self.imports.push(import)
CodeGenAddImport(gen, import) == [ gen EXCEPT !.imports = Append(@, import) ]

\* CodeGenerator::add_item: self.items.push(item)
CodeGenAddItem(gen, item) == [ gen EXCEPT !.items = Append(@, item) ]

\* generate writing the items before the imports
CodeGenGenerateItemsFirst(imports, items) ==
    LET decls == items \o imports IN
    [ decls |-> decls,
      n_imports |-> Len(imports),
      rendering |-> IF ParsesAsRust(decls) THEN "pretty" ELSE "raw" ]

\* CodeGenerator::generate: imports first, then items; pretty-printed when
\* the raw rendering parses, the raw rendering otherwise
CodeGenGenerate(imports, items) ==
    LET decls == imports \o items IN
    [ decls |-> decls,
      n_imports |-> Len(imports),
      rendering |-> IF ParsesAsRust(decls) THEN "pretty" ELSE "raw" ]

\* code_generator_response::File
Artifact(name, content) == [ name |-> name, content |-> content ]

-----------------------------------------------------------------------------
(* protoc-gen-rust-oneof-helper/src/generator.rs                           *)

\* the scalar arm of the code-type projection, shared by both resolvers
ScalarRustType(type) ==
    CASE type = "Double"   -> "f64"
      [] type = "Float"    -> "f32"
      [] type = "Int64"    -> "i64"
      [] type = "Uint64"   -> "u64"
      [] type = "Int32"    -> "i32"
      [] type = "Fixed64"  -> "u64"
      [] type = "Fixed32"  -> "u32"
      [] type = "Bool"     -> "bool"
      [] type = "String"   -> "String"
      [] type = "Bytes"    -> "Vec<u8>"
      [] type = "Uint32"   -> "u32"
      [] type = "Sfixed32" -> "i32"
      [] type = "Sfixed64" -> "i64"
      [] type = "Sint32"   -> "i32"
      [] type = "Sint64"   -> "i64"

\* Option<&str>::unwrap_or("Unknown") on type_name
TypeNameOrUnknown(field) == IF field.type_name = "" THEN "Unknown" ELSE field.type_name

\* OneofHelperGenerator::resolve_type_name
OneofResolveTypeName(type_name) == to_upper_camel_case(LastDotComponent(type_name))

\* the projection applying both of its wrapping arms
OneofFieldToRustTypeBothArms(field) ==
    LET base_type ==
            IF field.type \in {"Message", "Enum"}
            THEN OneofResolveTypeName(TypeNameOrUnknown(field))
            ELSE IF field.type = "Group" THEN "Unknown"
            ELSE ScalarRustType(field.type)
        inner == IF field.proto3_optional THEN "Option<" \o base_type \o ">" ELSE base_type
    IN  IF field.label = "Repeated" THEN "Vec<" \o inner \o ">" ELSE inner

\* OneofHelperGenerator::field_to_rust_type
OneofFieldToRustType(field) ==
    LET base_type ==
            IF field.type \in {"Message", "Enum"}
            THEN OneofResolveTypeName(TypeNameOrUnknown(field))
            ELSE IF field.type = "Group" THEN "Unknown"
            ELSE ScalarRustType(field.type)
    IN  IF field.label = "Optional" /\ field.proto3_optional
        THEN "Option<" \o base_type \o ">"
        ELSE IF field.label = "Repeated" THEN "Vec<" \o base_type \o ">"
        ELSE base_type

\* the (name, type) pairs of one message's fields
MessageParams(message) ==
    [ i \in 1..Len(message.field) |->
        [ name |-> to_snake_case(message.field[i].name),
          ty   |-> OneofFieldToRustType(message.field[i]) ] ]

\* the lookup taking the message named by the last component of type_name
ExtractMessageFieldsByShortName(file, type_name) ==
    LET hits == { i \in 1..Len(file.message_type) :
                    file.message_type[i].name = LastDotComponent(type_name) }
    IN  IF hits = {} THEN <<>>
        ELSE MessageParams(file.message_type[CHOOSE i \in hits : \A j \in hits : i <= j])

\* OneofHelperGenerator::extract_message_fields: the first message of the
\* file's top-level list whose name is a suffix of type_name
ExtractMessageFields(file, type_name) ==
    LET hits == { i \in 1..Len(file.message_type) :
                    EndsWith(type_name, file.message_type[i].name) }
    IN  IF hits = {} THEN <<>>
        ELSE MessageParams(file.message_type[CHOOSE i \in hits : \A j \in hits : i <= j])

\* OneofHelperGenerator::generate_constructor_for_field: the constructor
\* item; a parameter's type is a String interpolated into quote!, which
\* renders as a string literal
GenerateConstructorForField(file, message_name, oneof_name, field) ==
    LET params == ExtractMessageFields(file, field.type_name) IN
    [ kind        |-> "fn",
      name        |-> Ident("new_" \o to_snake_case(message_name) \o "_"
                              \o to_snake_case(field.name)),
      params      |-> [ i \in 1..Len(params) |->
                          [ name |-> Ident(params[i].name), ty |-> StrLit(params[i].ty) ] ],
      ret         |-> Ident(to_upper_camel_case(message_name)),
      oneof_field |-> Ident(to_snake_case(oneof_name)),
      variant     |-> Ident(to_upper_camel_case(field.name)),
      inner_type  |-> Ident(OneofResolveTypeName(field.type_name)),
      assignments |-> [ i \in 1..Len(params) |-> Ident(params[i].name) ] ]

\* OneofHelperGenerator::generate_oneof_helpers: one constructor per member
\* field of the group (oneof_index is 0-based) whose type is Message
GenerateOneofHelpers(file, message, oneof_index) ==
    LET members == SelectIdx(message.field, LAMBDA i :
                       /\ message.field[i].oneof_index = oneof_index
                       /\ message.field[i].type = "Message")
    IN  [ i \in 1..Len(members) |->
            GenerateConstructorForField(file, message.name,
                message.oneof_decl[oneof_index + 1], members[i]) ]

\* the items OneofHelperGenerator::generate adds to the buffer: the loop
\* over the file's top-level messages and each one's oneof_decl
OneofItems(file) ==
    Flatten([ m \in 1..Len(file.message_type) |->
        Flatten([ o \in 1..Len(file.message_type[m].oneof_decl) |->
            GenerateOneofHelpers(file, file.message_type[m], o - 1) ]) ])

\* the has_oneofs flag of OneofHelperGenerator::generate
HasOneofs(file) ==
    \E m \in 1..Len(file.message_type) : Len(file.message_type[m].oneof_decl) > 0

OneofOutputName(file) == ReplaceAll(file.name, ".proto", "") \o ".oneof_helpers.rs"

\* generate without its `if !has_oneofs { return Ok(None) }`
OneofGenerateUnchecked(file) ==
    << Artifact(OneofOutputName(file), CodeGenGenerate(<<>>, OneofItems(file))) >>

\* OneofHelperGenerator::generate: <<>> models Ok(None), <<file>> Ok(Some(file))
OneofGenerate(file) ==
    IF ~HasOneofs(file) THEN <<>>
    ELSE << Artifact(OneofOutputName(file), CodeGenGenerate(<<>>, OneofItems(file))) >>

-----------------------------------------------------------------------------
(* protoc-gen-rust-http/src/annotations.rs and generator.rs                *)

\* HttpRule; response_body = "" models None
HttpRule(method, path, body) ==
    [ method |-> method, path |-> path, body |-> body, response_body |-> "" ]

\* parse_http_rule: <<>> models None, <<rule>> Some(rule).  The decoder is a
\* stub that ignores the options and always returns the same rule.
ParseHttpRule(options) == << HttpRule("POST", "/api/v1/default", "*") >>

\* parse_service_headers: the stub returns None whatever the options are
ParseServiceHeaders(options) == <<>>

\* HttpGenerator::resolve_type_name
HttpResolveTypeName(type_name) ==
    Ident(to_upper_camel_case(LastDotComponent(TrimStartDots(type_name))))

\* the http_rule of one method in HttpGenerator::generate_router:
\* method.options.as_ref().and_then(parse_http_rule).unwrap_or_else(default)
MethodHttpRule(method) ==
    LET parsed == IF method.options THEN ParseHttpRule(method.options) ELSE <<>> IN
    IF Len(parsed) > 0 THEN parsed[1]
    ELSE HttpRule("POST", "/api/v1/" \o to_snake_case(method.name), "*")

\* HttpGenerator::generate_service_trait
GenerateServiceTrait(service) ==
    [ kind    |-> "trait",
      name    |-> Ident(service.name \o "Server"),
      methods |-> [ i \in 1..Len(service.method) |->
                      [ name   |-> Ident(to_snake_case(service.method[i].name)),
                        input  |-> HttpResolveTypeName(service.method[i].input_type),
                        output |-> HttpResolveTypeName(service.method[i].output_type) ] ] ]

\* HttpGenerator::generate_router: one .route(path, verb(handler)) per method
GenerateRouter(service) ==
    [ kind   |-> "router",
      name   |-> Ident("register_" \o to_snake_case(service.name) \o "_server"),
      bound  |-> Ident(service.name \o "Server"),
      routes |-> [ i \in 1..Len(service.method) |->
                     LET http_rule == MethodHttpRule(service.method[i]) IN
                     [ path      |-> StrLit(http_rule.path),
                       method_fn |-> Ident(ToLowerStr(http_rule.method)),
                       handler   |-> Ident(to_snake_case(service.method[i].name)
                                           \o "_handler") ] ] ]

\* HttpGenerator::generate_handlers: one handler item per method
GenerateHandlers(service) ==
    [ i \in 1..Len(service.method) |->
        [ kind         |-> "handler",
          name         |-> Ident(to_snake_case(service.method[i].name) \o "_handler"),
          bound        |-> Ident(service.name \o "Server"),
          trait_method |-> Ident(to_snake_case(service.method[i].name)),
          input        |-> HttpResolveTypeName(service.method[i].input_type) ] ]

\* HttpGenerator::generate_header_middleware: one check per header flagged
\* required, naming the header
GenerateHeaderMiddleware(headers) ==
    LET required == SelectIdx(headers, LAMBDA i : headers[i].required) IN
    [ kind        |-> "middleware",
      name        |-> Ident("validate_headers"),
      validations |-> [ i \in 1..Len(required) |-> StrLit(required[i].name) ] ]

\* the five use declarations HttpGenerator::generate adds first
HttpImports ==
    << [ kind |-> "use", path |-> "axum" ],
       [ kind |-> "use", path |-> "serde" ],
       [ kind |-> "use", path |-> "std::sync::Arc" ],
       [ kind |-> "use", path |-> "tower::ServiceBuilder" ],
       [ kind |-> "use", path |-> "tower_http::cors::CorsLayer" ] >>

\* the body of the service loop of HttpGenerator::generate
HttpServiceArtifact(service) ==
    LET headers == IF service.options THEN ParseServiceHeaders(service.options) ELSE <<>>
        items == << GenerateServiceTrait(service), GenerateRouter(service) >>
                 \o GenerateHandlers(service)
                 \o (IF Len(headers) > 0
                     THEN << GenerateHeaderMiddleware(headers[1].required) >>
                     ELSE <<>>)
    IN  Artifact(to_snake_case(service.name) \o ".http.rs",
                 CodeGenGenerate(HttpImports, items))

\* the generator that passes over a service without methods
HttpGenerateSkippingEmpty(file, all_files) ==
    LET kept == SelectIdx(file.service, LAMBDA i : Len(file.service[i].method) > 0)
    IN  [ i \in 1..Len(kept) |-> HttpServiceArtifact(kept[i]) ]

\* HttpGenerator::generate: one artifact per service of the file
HttpGenerate(file, all_files) ==
    [ i \in 1..Len(file.service) |-> HttpServiceArtifact(file.service[i]) ]

-----------------------------------------------------------------------------
(* protoc-gen-rust-openapiv3/src/generator.rs and schema.rs                *)

\* HashMap::insert
MapPut(m, k, v) == [ x \in (DOMAIN m) \cup {k} |-> IF x = k THEN v ELSE m[x] ]

\* Schema; "" models None for the strings, <<>> for required (the code
\* stores None when the list is empty) and for items (a Box of at most one)
Schema(schema_type, format, reference, items, has_properties, properties, required, has_enum, enum_values) ==
    [ schema_type |-> schema_type, format |-> format, reference |-> reference,
      items |-> items, has_properties |-> has_properties,
      properties |-> properties, required |-> required,
      has_enum |-> has_enum, enum_values |-> enum_values ]

PlainSchema(schema_type, format, reference) ==
    Schema(schema_type, format, reference, <<>>, FALSE, <<>>, <<>>, FALSE, <<>>)

\* OpenApiGenerator::resolve_type_name
OpenApiResolveTypeName(type_name) == LastDotComponent(TrimStartDots(type_name))

\* the projection giving unsigned 32-bit integers the 64-bit format
FieldToSchemaWideUnsigned(field) ==
    LET t == field.type
        base_schema ==
            IF t \in {"Double", "Float"}
            THEN PlainSchema("number", IF t = "Float" THEN "float" ELSE "double", "")
            ELSE IF t \in {"Int64", "Uint64", "Sint64", "Fixed64", "Sfixed64", "Uint32", "Fixed32"}
            THEN PlainSchema("integer", "int64", "")
            ELSE IF t \in {"Int32", "Sint32", "Sfixed32"}
            THEN PlainSchema("integer", "int32", "")
            ELSE IF t = "Bool" THEN PlainSchema("boolean", "", "")
            ELSE IF t = "String" THEN PlainSchema("string", "", "")
            ELSE IF t = "Bytes" THEN PlainSchema("string", "byte", "")
            ELSE IF t \in {"Message", "Enum"}
            THEN PlainSchema("", "", "#/components/schemas/"
                                      \o OpenApiResolveTypeName(field.type_name))
            ELSE PlainSchema("object", "", "")
    IN  IF field.label = "Repeated"
        THEN Schema("array", "", "", <<base_schema>>, FALSE, <<>>, <<>>, FALSE, <<>>)
        ELSE base_schema

\* OpenApiGenerator::field_to_schema
FieldToSchema(field) ==
    LET t == field.type
        base_schema ==
            IF t \in {"Double", "Float"}
            THEN PlainSchema("number", IF t = "Float" THEN "float" ELSE "double", "")
            ELSE IF t \in {"Int64", "Uint64", "Sint64", "Fixed64", "Sfixed64"}
            THEN PlainSchema("integer", "int64", "")
            ELSE IF t \in {"Int32", "Uint32", "Sint32", "Fixed32", "Sfixed32"}
            THEN PlainSchema("integer", "int32", "")
            ELSE IF t = "Bool" THEN PlainSchema("boolean", "", "")
            ELSE IF t = "String" THEN PlainSchema("string", "", "")
            ELSE IF t = "Bytes" THEN PlainSchema("string", "byte", "")
            ELSE IF t \in {"Message", "Enum"}
            THEN PlainSchema("", "", "#/components/schemas/"
                                      \o OpenApiResolveTypeName(field.type_name))
            ELSE PlainSchema("object", "", "")
    IN  IF field.label = "Repeated"
        THEN Schema("array", "", "", <<base_schema>>, FALSE, <<>>, <<>>, FALSE, <<>>)
        ELSE base_schema

\* the test that puts a field's name on the required list in
\* OpenApiGenerator::message_to_schema
FieldIsRequired(field) == ~field.proto3_optional /\ field.label # "Optional"

\* OpenApiGenerator::message_to_schema
MessageToSchema(message) ==
    LET RECURSIVE Props(_)
        Props(i) == IF i = 0 THEN <<>>
                    ELSE MapPut(Props(i - 1), message.field[i].name,
                                FieldToSchema(message.field[i]))
        required == SelectIdx(message.field, LAMBDA i : FieldIsRequired(message.field[i]))
    IN  Schema("object", "", "", <<>>, TRUE, Props(Len(message.field)),
               [ i \in 1..Len(required) |-> required[i].name ], FALSE, <<>>)

\* OpenApiGenerator::enum_to_schema
EnumToSchema(enum_type) ==
    Schema("string", "", "", <<>>, FALSE, <<>>, <<>>, TRUE, enum_type.value)

\* the path under which OpenApiGenerator::add_method_to_spec files a method
OpenApiMethodPath(method) == "/api/v1/" \o to_snake_case(method.name)

\* the Operation of OpenApiGenerator::add_method_to_spec
OpenApiOperation(service_name, method) ==
    [ summary      |-> method.name,
      operation_id |-> service_name \o "_" \o method.name,
      tags         |-> << service_name >>,
      request_body |-> [ required |-> TRUE,
                         schema |-> "#/components/schemas/"
                                    \o OpenApiResolveTypeName(method.input_type) ],
      responses    |->
          [ code \in {"200", "400", "500"} |->
              CASE code = "200" ->
                     [ description |-> "Successful response",
                       schema |-> "#/components/schemas/"
                                  \o OpenApiResolveTypeName(method.output_type) ]
                [] code = "400" -> [ description |-> "Bad request", schema |-> "" ]
                [] code = "500" -> [ description |-> "Internal server error",
                                     schema |-> "" ] ] ]

\* PathItem with only the post slot filled; <<>> models None
PostPathItem(operation) ==
    [ get |-> <<>>, post |-> <<operation>>, put |-> <<>>, delete |-> <<>>,
      patch |-> <<>> ]

\* OpenApiGenerator::add_method_to_spec: spec.paths.insert(path, path_item)
AddMethodToSpec(paths, service_name, method) ==
    MapPut(paths, OpenApiMethodPath(method),
           PostPathItem(OpenApiOperation(service_name, method)))

\* OpenApiGenerator::collect_message_schemas: the file's top-level messages,
\* then its top-level enums
CollectMessageSchemas(file) ==
    LET RECURSIVE Msgs(_)
        Msgs(i) == IF i = 0 THEN <<>>
                   ELSE MapPut(Msgs(i - 1), file.message_type[i].name,
                               MessageToSchema(file.message_type[i]))
        RECURSIVE Enums(_)
        Enums(i) == IF i = 0 THEN Msgs(Len(file.message_type))
                    ELSE MapPut(Enums(i - 1), file.enum_type[i].name,
                                EnumToSchema(file.enum_type[i]))
    IN  Enums(Len(file.enum_type))

\* OpenApiGenerator::generate_service_spec
GenerateServiceSpec(file, service) ==
    LET RECURSIVE Paths(_)
        Paths(i) == IF i = 0 THEN <<>>
                    ELSE AddMethodToSpec(Paths(i - 1), service.name, service.method[i])
    IN  [ openapi |-> "3.1.0",
          info    |-> [ title |-> service.name \o " API", version |-> "1.0.0",
                        description |-> "API specification for " \o service.name ],
          paths   |-> Paths(Len(service.method)),
          components |-> [ schemas |-> CollectMessageSchemas(file) ],
          servers |-> << [ url |-> "http://localhost:8080",
                           description |-> "Local development server" ] >> ]

\* the orders in which a HashMap holding the keys "200", "400" and "500" can
\* hand them out: std's HashMap hashes with RandomState, whose keys are drawn
\* at random once per process, so the order differs from run to run
ResponseOrders ==
    << << "200", "400", "500" >>, << "200", "500", "400" >>,
       << "400", "200", "500" >>, << "400", "500", "200" >>,
       << "500", "200", "400" >>, << "500", "400", "200" >> >>

\* the keys RandomState can draw, told apart by the order they give
HashSeeds == DOMAIN ResponseOrders

\* serde_yaml::to_string(&spec): the document as text.  A mapping is written
\* key by key in the iteration order of its HashMap; responses_written is
\* the order in which the responses of the operations are written (the keys
\* of paths, schemas and properties are written in such an order too)
ToYaml(spec, keys) ==
    [ openapi    |-> spec.openapi,
      info       |-> spec.info,
      paths      |-> spec.paths,
      components |-> spec.components,
      servers    |-> spec.servers,
      responses_written |-> ResponseOrders[keys] ]

\* OpenApiGenerator::generate in a process whose RandomState drew keys
OpenApiGenerateKeyed(file, all_files, keys) ==
    [ i \in 1..Len(file.service) |->
        Artifact(file.service[i].name \o ".openapi.yaml",
                 ToYaml(GenerateServiceSpec(file, file.service[i]), keys)) ]

\* generate naming the documents by the snake-cased service name
OpenApiGenerateSnakeNamed(file, all_files) ==
    [ i \in 1..Len(file.service) |->
        Artifact(to_snake_case(file.service[i].name) \o ".openapi.yaml",
                 ToYaml(GenerateServiceSpec(file, file.service[i]), hash_keys)) ]

\* OpenApiGenerator::generate: one document per service of the file
OpenApiGenerate(file, all_files) == OpenApiGenerateKeyed(file, all_files, hash_keys)

-----------------------------------------------------------------------------
(* The schemas the plugins are run on                                      *)

MaxFields == 3      \* fields of the message of a schema-family file
MaxMethods == 2     \* methods of the service of a routing-family file
MaxVariants == 2    \* variants of the oneof group of a oneof-family file
MaxFiles == 2       \* files of a request built from the file pool

SeqsUpTo(S, n) == UNION { [1..k -> S] : k \in 0..n }

Distinct(s) == \A i, j \in 1..Len(s) : i # j => s[i] # s[j]

StringField(name) == Fld(name, "String", "", "Optional", FALSE, -1)

UserMessage == Msg("User", << StringField("id"), StringField("name") >>, <<>>, <<>>)

GetUserMethod == Mth("GetUser", ".test.User", ".test.User", FALSE)

\* --- schema family: one message whose fields vary in cardinality ---------
\* "plain": proto3 singular; "explicit": proto3 optional (with the synthetic
\* oneof the compiler declares for it); "repeated"; "required": proto2
Cardinalities == {"plain", "explicit", "repeated", "required"}

FieldNames == << "id", "name", "tags", "phone", "email" >>

CardField(cards, i) ==
    LET explicit_before == Cardinality({ j \in 1..(i - 1) : cards[j] = "explicit" }) IN
    Fld(FieldNames[i], "String", "",
        CASE cards[i] = "plain"    -> "Optional"
          [] cards[i] = "explicit" -> "Optional"
          [] cards[i] = "repeated" -> "Repeated"
          [] cards[i] = "required" -> "Required",
        cards[i] = "explicit",
        IF cards[i] = "explicit" THEN explicit_before ELSE -1)

CardMessage(name, cards) ==
    LET explicit == SelectIdx(cards, LAMBDA i : cards[i] = "explicit")
        explicit_at == SelectIdx([ i \in 1..Len(cards) |-> i ],
                                 LAMBDA i : cards[i] = "explicit")
    IN  Msg(name, [ i \in 1..Len(cards) |-> CardField(cards, i) ],
            [ k \in 1..Len(explicit_at) |-> "_" \o FieldNames[explicit_at[k]] ], <<>>)

SchemaFiles ==
    { File("schema.proto", "test", << CardMessage("User", cards) >>, <<>>,
           << Svc("UserService", << GetUserMethod >>, FALSE) >>)
      : cards \in SeqsUpTo(Cardinalities, MaxFields) }

\* --- routing family: one service whose methods vary ----------------------
MethodNames == {"ListUsers", "GetUser", "getUser", "Type"}

Methods == { Mth(n, ".test.User", ".test.User", o) : n \in MethodNames, o \in BOOLEAN }

RoutingFiles ==
    { File("service.proto", "test", << UserMessage >>, <<>>,
           << Svc("UserService", ms, FALSE) >>)
      : ms \in { s \in SeqsUpTo(Methods, MaxMethods) :
                   Distinct([ i \in 1..Len(s) |-> s[i].name ]) } }

\* --- header family: one service whose header metadata varies ------------
MaxHeaders == 2
HeaderNames == {"X-Api-Key", "X-Trace-Id"}

HeaderConfigs == { HeaderConfig(n, r) : n \in HeaderNames, r \in BOOLEAN }

HeaderFiles ==
    { File("secure.proto", "test", << UserMessage >>, <<>>,
           << SvcWithHeaders("UserService", << GetUserMethod >>, hs) >>)
      : hs \in { s \in SeqsUpTo(HeaderConfigs, MaxHeaders) :
                   /\ Len(s) > 0
                   /\ Distinct([ i \in 1..Len(s) |-> s[i].name ]) } }

\* --- oneof family: message Event with one oneof group `payload` ----------
VariantNames == << "created", "deleted", "renamed" >>
PayloadNames == << "Created", "Deleted", "Renamed" >>
VariantKinds == {"Message", "String", "Enum"}
PayloadPlaces == {"top", "nested", "other"}

PayloadMessage(i) ==
    Msg(PayloadNames[i],
        << StringField("user_id"),
           Fld("tags", "String", "", "Repeated", FALSE, -1) >>, <<>>, <<>>)

PayloadTypeName(place, i) ==
    CASE place = "top"    -> ".test." \o PayloadNames[i]
      [] place = "nested" -> ".test.Event." \o PayloadNames[i]
      [] place = "other"  -> ".common." \o PayloadNames[i]

VariantField(place, kinds, i) ==
    Fld(VariantNames[i], kinds[i],
        CASE kinds[i] = "Message" -> PayloadTypeName(place, i)
          [] kinds[i] = "Enum"    -> ".test.Kind"
          [] kinds[i] = "String"  -> "",
        "Optional", FALSE, 0)

PayloadMessages(kinds) ==
    LET at == SelectIdx([ i \in 1..Len(kinds) |-> i ], LAMBDA i : kinds[i] = "Message")
    IN  [ k \in 1..Len(at) |-> PayloadMessage(at[k]) ]

EventMessage(place, kinds) ==
    Msg("Event", [ i \in 1..Len(kinds) |-> VariantField(place, kinds, i) ],
        << "payload" >>,
        IF place = "nested" THEN PayloadMessages(kinds) ELSE <<>>)

KindEnum == Enm("Kind", << "KIND_UNSPECIFIED", "KIND_USER" >>)

EventFile(place, kinds) ==
    File("event.proto", "test",
         << EventMessage(place, kinds) >>
            \o (IF place = "top" THEN PayloadMessages(kinds) ELSE <<>>),
         << KindEnum >>, <<>>)

CommonFile(kinds) == File("common.proto", "common", PayloadMessages(kinds), <<>>, <<>>)

VariantSeqs == SeqsUpTo(VariantKinds, MaxVariants) \ { <<>> }

\* --- reference family: a service whose messages refer to other types -----
\* message Order { string id; Status status; Item item | repeated Item items }
\* and rpc GetOrder(Item) returns (Order), where Item is declared at the top
\* level of the file, nested in Order, in another file of the request, or
\* nowhere in the request (a request not produced by the schema compiler)
RefPlaces == {"top", "nested", "other", "missing"}

ItemMessage == Msg("Item", << StringField("sku") >>, <<>>, <<>>)

ItemTypeName(place) ==
    CASE place = "top"     -> ".shop.Item"
      [] place = "nested"  -> ".shop.Order.Item"
      [] place = "other"   -> ".common.Item"
      [] place = "missing" -> ".shop.Missing"

StatusEnum == Enm("Status", << "STATUS_UNSPECIFIED", "STATUS_ACTIVE" >>)

OrderMessage(field_place, repeated, input_place) ==
    Msg("Order",
        << StringField("id"),
           Fld("status", "Enum", ".shop.Status", "Optional", FALSE, -1),
           Fld(IF repeated THEN "items" ELSE "item", "Message", ItemTypeName(field_place),
               IF repeated THEN "Repeated" ELSE "Optional", FALSE, -1) >>,
        <<>>,
        IF "nested" \in {field_place, input_place} THEN << ItemMessage >> ELSE <<>>)

RefFile(field_place, repeated, input_place) ==
    File("shop.proto", "shop",
         << OrderMessage(field_place, repeated, input_place) >>
            \o (IF "top" \in {field_place, input_place} THEN << ItemMessage >> ELSE <<>>),
         << StatusEnum >>,
         << Svc("OrderService",
                << Mth("GetOrder", ItemTypeName(input_place), ".shop.Order", FALSE) >>,
                FALSE) >>)

ItemCommonFile == File("common.proto", "common", << ItemMessage >>, <<>>, <<>>)

\* --- the schemas of the repository's tests --------------------------------
\* TEST_PROTO's LoginRequest (oneof-helper integration test, golden test)
LoginFile ==
    File("login.proto", "test",
         << Msg("LoginRequest",
                << Fld("email", "Message", ".test.LoginRequest.EmailAuth", "Optional", FALSE, 0),
                   Fld("phone", "Message", ".test.LoginRequest.PhoneAuth", "Optional", FALSE, 0) >>,
                << "auth_method" >>,
                << Msg("EmailAuth", << StringField("email"), StringField("password") >>,
                       <<>>, <<>>),
                   Msg("PhoneAuth", << StringField("phone"), StringField("code") >>,
                       <<>>, <<>>) >>) >>,
         <<>>, <<>>)

\* test_nested_message_oneof's Container.InnerMessage
NestedFile ==
    File("nested.proto", "test",
         << Msg("Container", <<>>, <<>>,
                << Msg("InnerMessage",
                       << Fld("str", "Message", ".test.Container.InnerMessage.StringValue",
                              "Optional", FALSE, 0),
                          Fld("int", "Message", ".test.Container.InnerMessage.IntValue",
                              "Optional", FALSE, 0) >>,
                       << "value" >>,
                       << Msg("StringValue", << StringField("data") >>, <<>>, <<>>),
                          Msg("IntValue",
                              << Fld("data", "Int32", "", "Optional", FALSE, -1) >>,
                              <<>>, <<>>) >>) >>) >>,
         <<>>, <<>>)

\* test_no_oneofs_no_output's and test_no_services_no_output's messages
SimpleFile ==
    File("simple.proto", "test",
         << Msg("User", << StringField("name"),
                           Fld("age", "Int32", "", "Optional", FALSE, -1) >>, <<>>, <<>>),
            Msg("Product", << StringField("id"), StringField("name"),
                              Fld("price", "Double", "", "Optional", FALSE, -1) >>,
                <<>>, <<>>) >>,
         << KindEnum >>, <<>>)

\* a file with two services, as TEST_SERVICE_PROTO and TEST_API_PROTO have
ApiFile ==
    File("api.proto", "test.api", << UserMessage >>, <<>>,
         << Svc("UserService",
                << Mth("ListUsers", ".test.api.User", ".test.api.User", FALSE),
                   Mth("GetUser", ".test.api.User", ".test.api.User", FALSE) >>, FALSE),
            Svc("AdminService",
                << Mth("DeleteUser", ".test.api.User", ".test.api.User", FALSE) >>,
                FALSE) >>)

\* TEST_PROTO's PaymentMethod, in a file that also declares a service
PaymentFile ==
    File("payment.proto", "test",
         << Msg("PaymentMethod",
                << Fld("card", "Message", ".test.PaymentMethod.CreditCard", "Optional", FALSE, 0),
                   Fld("bank", "Message", ".test.PaymentMethod.BankAccount", "Optional", FALSE, 0) >>,
                << "method" >>,
                << Msg("CreditCard", << StringField("number"), StringField("expiry"),
                                        StringField("cvv") >>, <<>>, <<>>),
                   Msg("BankAccount", << StringField("account_number"),
                                         StringField("routing_number") >>, <<>>, <<>>) >>) >>,
         <<>>,
         << Svc("PaymentService",
                << Mth("Pay", ".test.PaymentMethod", ".test.PaymentMethod", FALSE) >>,
                FALSE) >>)

\* a payload message whose name ends with the name of another message of the
\* file, declared before it or after it
SuffixFile(auth_first) ==
    LET auth == Msg("Auth", << StringField("token") >>, <<>>, <<>>)
        email_auth == Msg("EmailAuth", << StringField("email"), StringField("password") >>,
                          <<>>, <<>>)
        login == Msg("LoginRequest",
                     << Fld("email", "Message", ".test.EmailAuth", "Optional", FALSE, 0),
                        Fld("token", "Message", ".test.Auth", "Optional", FALSE, 0) >>,
                     << "auth_method" >>, <<>>)
    IN  File("suffix.proto", "test",
             IF auth_first THEN << auth, email_auth, login >>
             ELSE << email_auth, auth, login >>,
             <<>>, <<>>)

\* two services of one file whose names have the same snake-cased form
TwinFile ==
    File("twin.proto", "test", << UserMessage >>, <<>>,
         << Svc("UserService", << GetUserMethod >>, FALSE),
            Svc("userService", << GetUserMethod >>, FALSE) >>)

\* a service of the given package named like the service of another package
NamesakeFile(package) ==
    File(package \o ".proto", package, << UserMessage >>, <<>>,
         << Svc("UserService",
                << Mth("GetUser", "." \o package \o ".User", "." \o package \o ".User", FALSE) >>,
                FALSE) >>)

FilePool == { LoginFile, NestedFile, SimpleFile, ApiFile, PaymentFile }

\* --- requests --------------------------------------------------------------
SingleFileRequests ==
    { Req(<< f >>, << f.name >>)
      : f \in SchemaFiles \cup RoutingFiles \cup HeaderFiles \cup FilePool
              \cup { SuffixFile(auth_first) : auth_first \in BOOLEAN }
              \cup { EventFile(place, kinds) : place \in PayloadPlaces \ {"other"},
                                               kinds \in VariantSeqs } }

\* the payload messages live in a file that is in the request only for
\* cross-file resolution
CrossFileRequests ==
    { Req(<< CommonFile(kinds), EventFile("other", kinds) >>, << "event.proto" >>)
      : kinds \in VariantSeqs }

PoolRequests ==
    { Req(fs, gen)
      : <<fs, gen>> \in
          { <<fs, gen>> \in SeqsUpTo(FilePool, MaxFiles) \X SeqsUpTo({ f.name : f \in FilePool }, MaxFiles) :
                /\ Len(fs) > 0 /\ Len(gen) > 0
                /\ Distinct(fs) /\ Distinct(gen)
                /\ \A i \in 1..Len(gen) : \E j \in 1..Len(fs) : fs[j].name = gen[i] } }

\* the file that declares Item elsewhere comes first, as the schema compiler
\* lists a file's imports before the file
ReferenceRequests ==
    { Req((IF "other" \in {field_place, input_place} THEN << ItemCommonFile >> ELSE <<>>)
             \o << RefFile(field_place, repeated, input_place) >>,
          << "shop.proto" >>)
      : field_place \in RefPlaces, repeated \in BOOLEAN, input_place \in RefPlaces }

\* services whose artifacts get the same name
NamesakeRequests ==
    { Req(<< TwinFile >>, << "twin.proto" >>),
      Req(<< NamesakeFile("accounts"), NamesakeFile("billing") >>,
          << "accounts.proto", "billing.proto" >>) }

Requests ==
    SingleFileRequests \cup CrossFileRequests \cup PoolRequests \cup ReferenceRequests
        \cup NamesakeRequests

-----------------------------------------------------------------------------
(* sebuf-core/src/parser.rs: TypeMapper, called as a library               *)

\* the projection with Option only for the proto3 optional marker
TypeMapperFieldToRustTypeByMarker(field) ==
    LET base_type ==
            IF field.type \in {"Message", "Enum", "Group"} THEN TypeNameOrUnknown(field)
            ELSE ScalarRustType(field.type)
    IN  IF field.label = "Repeated" THEN "Vec<" \o base_type \o ">"
        ELSE IF field.proto3_optional THEN "Option<" \o base_type \o ">"
        ELSE base_type

\* TypeMapper::field_to_rust_type
TypeMapperFieldToRustType(field) ==
    LET base_type ==
            IF field.type \in {"Message", "Enum", "Group"} THEN TypeNameOrUnknown(field)
            ELSE ScalarRustType(field.type)
    IN  CASE field.label = "Optional" -> "Option<" \o base_type \o ">"
          [] field.label = "Repeated" -> "Vec<" \o base_type \o ">"
          [] field.label = "Required" -> base_type

\* TypeMapper::message_name_to_rust
message_name_to_rust(name) == to_upper_camel_case(name)

\* TypeMapper::field_name_to_rust
field_name_to_rust(name) == to_snake_case(name)

\* TypeMapper::method_name_to_rust
method_name_to_rust(name) == to_snake_case(name)

\* field_descriptor_proto::Type and Label
FieldTypes ==
    {"Double", "Float", "Int64", "Uint64", "Int32", "Fixed64", "Fixed32", "Bool",
     "String", "Group", "Message", "Bytes", "Uint32", "Enum", "Sfixed32", "Sfixed64",
     "Sint32", "Sint64"}

Labels == {"Optional", "Required", "Repeated"}

\* the fields the projections are called on: every type, label and
\* proto3_optional flag; type_name set (or left None) for the named types
MappedFields ==
    { Fld("test", t, tn, l, o, -1)
      : <<t, tn>> \in { <<t, tn>> \in FieldTypes \X {"", ".example.User"} :
                          tn = "" \/ t \in {"Message", "Enum", "Group"} },
        l \in Labels, o \in BOOLEAN }

\* the schema identifiers the case projections are called on
Identifiers ==
    {"user_info", "UserInfo", "user-info", "UserName", "userName", "user_name", "GetUser",
     "CreateUserAccount", "get_user", "id", "User", "a_b", "AB", "HTTPServer",
     "XMLHttpRequest", "_tmp"}

\* no field, no result yet
NoField == Fld("", "Double", "", "Optional", FALSE, -1)

NotMapped == [ core |-> <<>>, oneof |-> <<>>, schema |-> <<>> ]

NotCased == [ projection |-> "none", once |-> <<>>, twice |-> <<>> ]

\* TypeMapper::field_to_rust_type(&field)
CallTypeMapper ==
    /\ mapped_field # NoField /\ mapped_type.core = <<>>
    /\ mapped_type' = [ mapped_type EXCEPT !.core = << TypeMapperFieldToRustType(mapped_field) >> ]
    /\ UNCHANGED <<mapped_field, cased_ident, cased_name>>
    /\ UNCHANGED run_vars
    /\ UNCHANGED codegen_vars

\* OneofHelperGenerator::field_to_rust_type(&field)
CallOneofMapper ==
    /\ mapped_field # NoField /\ mapped_type.oneof = <<>>
    /\ mapped_type' = [ mapped_type EXCEPT !.oneof = << OneofFieldToRustType(mapped_field) >> ]
    /\ UNCHANGED <<mapped_field, cased_ident, cased_name>>
    /\ UNCHANGED run_vars
    /\ UNCHANGED codegen_vars

\* OpenApiGenerator::field_to_schema(&field)
CallFieldToSchema ==
    /\ mapped_field # NoField /\ mapped_type.schema = <<>>
    /\ mapped_type' = [ mapped_type EXCEPT !.schema = << FieldToSchema(mapped_field) >> ]
    /\ UNCHANGED <<mapped_field, cased_ident, cased_name>>
    /\ UNCHANGED run_vars
    /\ UNCHANGED codegen_vars

\* one application of a case projection: to the identifier first, then to its
\* own result
Cased(projection, once, twice) ==
    /\ cased_ident # "" /\ cased_name.projection \in {"none", projection}
    /\ cased_name.twice = <<>>
    /\ cased_name' = IF cased_name.once = <<>>
                     THEN [ projection |-> projection, once |-> << once >>, twice |-> <<>> ]
                     ELSE [ cased_name EXCEPT !.twice = << twice >> ]
    /\ UNCHANGED <<mapped_field, mapped_type, cased_ident>>
    /\ UNCHANGED run_vars
    /\ UNCHANGED codegen_vars

CallMessageNameToRust ==
    Cased("message_name_to_rust", message_name_to_rust(cased_ident),
          message_name_to_rust(message_name_to_rust(cased_ident)))

CallFieldNameToRust ==
    Cased("field_name_to_rust", field_name_to_rust(cased_ident),
          field_name_to_rust(field_name_to_rust(cased_ident)))

CallMethodNameToRust ==
    Cased("method_name_to_rust", method_name_to_rust(cased_ident),
          method_name_to_rust(method_name_to_rust(cased_ident)))

ResolverInit ==
    /\ hash_keys = 1
    /\ plugin = "none" /\ stdin = "ok" /\ request = Req(<<>>, <<>>)
    /\ pc = "idle" /\ idx = 0
    /\ proto_file = File("", "", <<>>, <<>>, <<>>)
    /\ generated = <<>> /\ response = <<>> /\ features = 0
    /\ stdout = <<>> /\ result = "running"
    /\ \/ mapped_field \in MappedFields /\ cased_ident = ""
       \/ mapped_field = NoField /\ cased_ident \in Identifiers
    /\ mapped_type = NotMapped
    /\ cased_name = NotCased
    /\ code_gen = NewCodeGenerator /\ calls = <<>> /\ code_text = <<>>

ResolverNext ==
    \/ CallTypeMapper
    \/ CallOneofMapper
    \/ CallFieldToSchema
    \/ CallMessageNameToRust
    \/ CallFieldNameToRust
    \/ CallMethodNameToRust

ResolverSpec == ResolverInit /\ [][ResolverNext]_vars

-----------------------------------------------------------------------------
(* sebuf-core/src/codegen.rs: CodeGenerator, called as a library           *)

MaxCalls == 3       \* add_import and add_item calls on one CodeGenerator

\* the use declarations of test_code_generator_with_imports_and_items
ImportTokens ==
    { [ kind |-> "use", path |-> "std::collections::HashMap" ],
      [ kind |-> "use", path |-> "serde::{Serialize, Deserialize}" ] }

\* two items that parse and one that does not (a trait named by a keyword)
ItemTokens ==
    { [ kind |-> "trait", name |-> Ident("UserServiceServer"), methods |-> <<>> ],
      [ kind |-> "trait", name |-> Ident("AdminServiceServer"), methods |-> <<>> ],
      [ kind |-> "trait", name |-> Ident("type"), methods |-> <<>> ] }

\* gen.add_import(tokens)
AddImport ==
    /\ pc = "codegen" /\ code_text = <<>> /\ Len(calls) < MaxCalls
    /\ \E tokens \in ImportTokens :
          /\ code_gen' = CodeGenAddImport(code_gen, tokens)
          /\ calls' = Append(calls, [ op |-> "add_import", tokens |-> tokens ])
    /\ UNCHANGED code_text
    /\ UNCHANGED run_vars
    /\ UNCHANGED resolver_vars

\* gen.add_item(tokens)
AddItem ==
    /\ pc = "codegen" /\ code_text = <<>> /\ Len(calls) < MaxCalls
    /\ \E tokens \in ItemTokens :
          /\ code_gen' = CodeGenAddItem(code_gen, tokens)
          /\ calls' = Append(calls, [ op |-> "add_item", tokens |-> tokens ])
    /\ UNCHANGED code_text
    /\ UNCHANGED run_vars
    /\ UNCHANGED resolver_vars

\* gen.generate(), which takes the generator by value
Generate ==
    /\ pc = "codegen" /\ code_text = <<>>
    /\ code_text' = << CodeGenGenerate(code_gen.imports, code_gen.items) >>
    /\ UNCHANGED <<code_gen, calls>>
    /\ UNCHANGED run_vars
    /\ UNCHANGED resolver_vars

CodeGenInit ==
    /\ hash_keys = 1
    /\ plugin = "none" /\ stdin = "ok" /\ request = Req(<<>>, <<>>)
    /\ pc = "codegen" /\ idx = 0
    /\ proto_file = File("", "", <<>>, <<>>, <<>>)
    /\ generated = <<>> /\ response = <<>> /\ features = 0
    /\ stdout = <<>> /\ result = "running"
    /\ mapped_field = NoField /\ mapped_type = NotMapped
    /\ cased_ident = "" /\ cased_name = NotCased
    /\ code_gen = NewCodeGenerator /\ calls = <<>> /\ code_text = <<>>

CodeGenNext ==
    \/ AddImport
    \/ AddItem
    \/ Generate

CodeGenSpec == CodeGenInit /\ [][CodeGenNext]_vars

-----------------------------------------------------------------------------
(* Plugin::process of the three plugins and sebuf-core's run_plugin        *)

\* Feature::Proto3Optional as u64
Proto3Optional == 1

\* request.file_to_generate.contains(&proto_file.name)
ToGenerate(req, file) == SeqContains(req.file_to_generate, file.name)

\* the turn that generates for every file of the request
OneofProcessFileUnfiltered(req, file) == OneofGenerate(file)

\* OneofHelperPlugin::process, one turn of the loop over request.proto_file:
\* the files the turn pushes to the response (none when the file is skipped
\* or the generator returns None)
OneofProcessFile(req, file) ==
    IF ~ToGenerate(req, file) THEN <<>>
    ELSE OneofGenerate(file)

\* the turn without its file_to_generate test
OpenApiProcessFileUnfiltered(req, file) ==
    IF Len(file.service) = 0 THEN <<>>
    ELSE OpenApiGenerate(file, req.proto_file)

\* OpenApiPlugin::process, one turn of the loop over request.proto_file:
\* the files the turn extends the response with
OpenApiProcessFile(req, file) ==
    IF ~ToGenerate(req, file) THEN <<>>
    ELSE IF Len(file.service) = 0 THEN <<>>
    ELSE OpenApiGenerate(file, req.proto_file)

\* the file of the request with the given name
FileNamed(req, name) ==
    req.proto_file[CHOOSE i \in 1..Len(req.proto_file) : req.proto_file[i].name = name]

\* the service-surface plugin's process, one turn: its main.rs is not among
\* the sources, so the turn follows the design: the files to generate are
\* taken in their listed order and each one's artifacts are appended
HttpProcessFile(req, file) == HttpGenerate(file, req.proto_file)

\* the number of turns of the process loop
Turns ==
    IF plugin = "http" THEN Len(request.file_to_generate) ELSE Len(request.proto_file)

-----------------------------------------------------------------------------
(* run_plugin, step by step                                                *)

\* std::io::stdin().read_to_end(&mut input)?
ReadOk ==
    /\ pc = "read" /\ stdin # "read_error"
    /\ pc' = "decode"
    /\ UNCHANGED <<hash_keys, plugin, stdin, request, idx, proto_file, generated, response, features, stdout, result>>
    /\ UNCHANGED resolver_vars
    /\ UNCHANGED codegen_vars

ReadFail ==
    /\ pc = "read" /\ stdin = "read_error"
    /\ pc' = "exit" /\ result' = "ReadError"
    /\ UNCHANGED <<hash_keys, plugin, stdin, request, idx, proto_file, generated, response, features, stdout>>
    /\ UNCHANGED resolver_vars
    /\ UNCHANGED codegen_vars

\* CodeGeneratorRequest::decode(&input[..])?
DecodeOk ==
    /\ pc = "decode" /\ stdin = "ok"
    /\ pc' = "process"
    /\ UNCHANGED <<hash_keys, plugin, stdin, request, idx, proto_file, generated, response, features, stdout, result>>
    /\ UNCHANGED resolver_vars
    /\ UNCHANGED codegen_vars

DecodeFail ==
    /\ pc = "decode" /\ stdin = "garbage"
    /\ pc' = "exit" /\ result' = "DecodeError"
    /\ UNCHANGED <<hash_keys, plugin, stdin, request, idx, proto_file, generated, response, features, stdout>>
    /\ UNCHANGED resolver_vars
    /\ UNCHANGED codegen_vars

\* plugin.process(request): one turn of the loop of the running plugin
OneofTurn ==
    /\ pc = "process" /\ plugin = "oneof" /\ idx < Turns
    /\ proto_file' = request.proto_file[idx + 1]
    /\ generated' = OneofProcessFile(request, proto_file')
    /\ response' = response \o generated'
    /\ idx' = idx + 1
    /\ UNCHANGED <<hash_keys, plugin, stdin, request, pc, features, stdout, result>>
    /\ UNCHANGED resolver_vars
    /\ UNCHANGED codegen_vars

OpenApiTurn ==
    /\ pc = "process" /\ plugin = "openapi" /\ idx < Turns
    /\ proto_file' = request.proto_file[idx + 1]
    /\ generated' = OpenApiProcessFile(request, proto_file')
    /\ response' = response \o generated'
    /\ idx' = idx + 1
    /\ UNCHANGED <<hash_keys, plugin, stdin, request, pc, features, stdout, result>>
    /\ UNCHANGED resolver_vars
    /\ UNCHANGED codegen_vars

\* the failing turn handing on the response built so far
OpenApiTurnFailPartial ==
    /\ pc = "process" /\ plugin = "openapi" /\ idx < Turns
    /\ proto_file' = request.proto_file[idx + 1]
    /\ ToGenerate(request, proto_file') /\ Len(proto_file'.service) > 0
    /\ generated' = <<>>
    /\ idx' = idx + 1
    /\ pc' = "write" /\ result' = "GenerationError"
    /\ UNCHANGED <<hash_keys, plugin, stdin, request, response, features, stdout>>
    /\ UNCHANGED resolver_vars
    /\ UNCHANGED codegen_vars

\* the same turn when serde_yaml::to_string returns Err for a document of the
\* file: generate returns the error through `?`, process returns
\* Err(GenerationError), dropping the response built so far, and run_plugin
\* returns it through `?` without writing
OpenApiTurnFail ==
    /\ pc = "process" /\ plugin = "openapi" /\ idx < Turns
    /\ proto_file' = request.proto_file[idx + 1]
    /\ ToGenerate(request, proto_file') /\ Len(proto_file'.service) > 0
    /\ generated' = <<>>
    /\ idx' = idx + 1
    /\ pc' = "exit" /\ result' = "GenerationError"
    /\ UNCHANGED <<hash_keys, plugin, stdin, request, response, features, stdout>>
    /\ UNCHANGED resolver_vars
    /\ UNCHANGED codegen_vars

HttpTurn ==
    /\ pc = "process" /\ plugin = "http" /\ idx < Turns
    /\ proto_file' = FileNamed(request, request.file_to_generate[idx + 1])
    /\ generated' = HttpProcessFile(request, proto_file')
    /\ response' = response \o generated'
    /\ idx' = idx + 1
    /\ UNCHANGED <<hash_keys, plugin, stdin, request, pc, features, stdout, result>>
    /\ UNCHANGED resolver_vars
    /\ UNCHANGED codegen_vars

\* process returning Ok(response) while entries of the loop remain
ProcessDoneEarly ==
    /\ pc = "process"
    /\ features' = Proto3Optional
    /\ pc' = "write"
    /\ UNCHANGED <<hash_keys, plugin, stdin, request, idx, proto_file, generated, response, stdout, result>>
    /\ UNCHANGED resolver_vars
    /\ UNCHANGED codegen_vars

\* the end of process: supported_features is set and Ok(response) returned
ProcessDone ==
    /\ pc = "process" /\ idx = Turns
    /\ features' = Proto3Optional
    /\ pc' = "write"
    /\ UNCHANGED <<hash_keys, plugin, stdin, request, idx, proto_file, generated, response, stdout, result>>
    /\ UNCHANGED resolver_vars
    /\ UNCHANGED codegen_vars

\* response.encode_to_vec(); stdout().write_all(&output)?; Ok(())
WriteResponse ==
    /\ pc = "write"
    /\ stdout' = Append(stdout, [ file |-> response, supported_features |-> features,
                                  error |-> "" ])
    /\ pc' = "exit" /\ result' = "ok"
    /\ UNCHANGED <<hash_keys, plugin, stdin, request, idx, proto_file, generated, response, features>>
    /\ UNCHANGED resolver_vars
    /\ UNCHANGED codegen_vars

Init ==
    /\ plugin \in {"oneof", "openapi", "http"}
    /\ \/ stdin = "ok" /\ request \in Requests
       \/ stdin \in {"read_error", "garbage"} /\ request = Req(<<>>, <<>>)
    \* only the API-schema plugin builds hash maps, and only from a request
    /\ hash_keys \in IF plugin = "openapi" /\ stdin = "ok" THEN HashSeeds ELSE {1}
    /\ pc = "read"
    /\ idx = 0
    /\ proto_file = File("", "", <<>>, <<>>, <<>>)
    /\ generated = <<>>
    /\ response = <<>>
    /\ features = 0
    /\ stdout = <<>>
    /\ result = "running"
    /\ mapped_field = NoField /\ mapped_type = NotMapped
    /\ cased_ident = "" /\ cased_name = NotCased
    /\ code_gen = NewCodeGenerator /\ calls = <<>> /\ code_text = <<>>

Next ==
    \/ ReadOk
    \/ ReadFail
    \/ DecodeOk
    \/ DecodeFail
    \/ OneofTurn
    \/ OpenApiTurn
    \/ OpenApiTurnFail
    \/ HttpTurn
    \/ ProcessDone
    \/ WriteResponse

Spec == Init /\ [][Next]_vars

-----------------------------------------------------------------------------
(* What the design says, stated without the emitters' own tests            *)

Range(s) == { s[i] : i \in 1..Len(s) }

\* a turn of the process loop of the given plugin has run
TurnDone(p) == plugin = p /\ idx > 0

\* the turn handled a file that is marked to generate
TurnGenerated(p) == TurnDone(p) /\ ToGenerate(request, proto_file)

\* the names of the fields that are neither repeated nor explicitly
\* optional, in declaration order
NeitherRepeatedNorExplicit(message) ==
    LET kept == SelectIdx(message.field, LAMBDA i :
                    /\ message.field[i].label # "Repeated"
                    /\ ~message.field[i].proto3_optional)
    IN  [ i \in 1..Len(kept) |-> kept[i].name ]

\* the schema a document holds for a message of the file it was made from
SchemaOf(artifact, message) == artifact.content.components.schemas[message.name]

\* the proto3 message {id: string, name: string, tags: repeated string}
IdNameTags == CardMessage("User", << "plain", "plain", "repeated" >>)

\* C1: every message schema of every emitted API document lists as required
\* exactly the fields that are neither repeated nor explicitly optional, in
\* declaration order; {id, name, tags repeated} gives required = [id, name]
\* and tags as an array of string.
C1_RequiredIsNeitherRepeatedNorExplicit ==
    TurnGenerated("openapi") =>
        \A a \in 1..Len(generated) : \A m \in 1..Len(proto_file.message_type) :
            LET message == proto_file.message_type[m]
                schema == SchemaOf(generated[a], message)
            IN  /\ schema.required = NeitherRepeatedNorExplicit(message)
                /\ message = IdNameTags =>
                      /\ schema.required = << "id", "name" >>
                      /\ schema.properties["tags"].schema_type = "array"
                      /\ schema.properties["tags"].items[1].schema_type = "string"

\* a document was emitted for the {id, name, tags} message
C1_Witness ==
    /\ TurnGenerated("openapi") /\ Len(generated) > 0
    /\ proto_file.message_type[1] = IdNameTags

\* the router item of a service-surface artifact (after the imports and the
\* capability contract)
RouterOf(artifact) == artifact.content.decls[artifact.content.n_imports + 2]

\* the binding the design gives a method without routing directive
DefaultPath(method) == "/api/v1/" \o to_snake_case(method.name)

\* C2: every method without routing directive (options absent, or present
\* without routing annotation: the schemas here carry none) is bound to verb
\* POST and path /api/v1/<snake_case(name)>, and methods with different
\* snake-cased names never share a path.
C2_DefaultRoutePerMethod ==
    TurnGenerated("http") =>
        \A s \in 1..Len(generated) :
            LET service == proto_file.service[s]
                routes == RouterOf(generated[s]).routes
            IN  /\ Len(routes) = Len(service.method)
                /\ \A i \in 1..Len(routes) :
                      /\ routes[i].path.text = DefaultPath(service.method[i])
                      /\ routes[i].method_fn.text = "post"
                /\ \A i, j \in 1..Len(routes) :
                      to_snake_case(service.method[i].name)
                          # to_snake_case(service.method[j].name)
                      => routes[i].path # routes[j].path

\* a service with a method whose options are present was routed
C2_Witness ==
    /\ TurnGenerated("http") /\ Len(generated) > 0
    /\ \E i \in 1..Len(proto_file.service[1].method) :
           proto_file.service[1].method[i].options

\* the API document the API-schema emitter makes for a service of a file
DocumentOf(file, service) == GenerateServiceSpec(file, service)

\* C3: for every method the path of its operation in the API document is the
\* path of its route in the service surface, and the document's verb slot
\* (post) is the route's verb, with or without options.
C3_DocumentPathIsRoutePath ==
    TurnGenerated("http") =>
        \A s \in 1..Len(generated) :
            LET service == proto_file.service[s]
                routes == RouterOf(generated[s]).routes
                paths == DocumentOf(proto_file, service).paths
            IN  \A i \in 1..Len(service.method) :
                    /\ routes[i].path.text = OpenApiMethodPath(service.method[i])
                    /\ routes[i].path.text \in DOMAIN paths
                    /\ Len(paths[routes[i].path.text].post) = 1
                    /\ routes[i].method_fn.text = "post"

\* a service with a method whose options are present was emitted, and the
\* API document of the same service files that method's operation
C3_Witness ==
    /\ TurnGenerated("http") /\ Len(generated) = 1
    /\ \E i \in 1..Len(proto_file.service[1].method) :
           /\ proto_file.service[1].method[i].options
           /\ OpenApiMethodPath(proto_file.service[1].method[i])
                  \in DOMAIN DocumentOf(proto_file, proto_file.service[1]).paths

\* a fatal failure happened in this run
FatalFailure == stdin # "ok" \/ result = "GenerationError"

\* C4: when run_plugin has finished, exactly one response has been written,
\* and it carries an error message iff a fatal failure occurred.
C4_FailureIsAResponse ==
    pc = "exit" =>
        /\ Len(stdout) = 1
        /\ (stdout[1].error # "") <=> FatalFailure

\* run_plugin finished on an input that cannot be decoded
C4_Witness == pc = "exit" /\ stdin = "garbage"

RECURSIVE MessagesUnder(_)
\* the messages of a list and all the messages nested in them, at any depth
MessagesUnder(msgs) ==
    IF Len(msgs) = 0 THEN {}
    ELSE { msgs[1] } \cup MessagesUnder(msgs[1].nested_type) \cup MessagesUnder(Tail(msgs))

AllMessages(file) == MessagesUnder(file.message_type)

RECURSIVE QualifiedUnder(_, _)
\* <<fully-qualified name, message>> for the messages of a list and the
\* messages nested in them
QualifiedUnder(prefix, msgs) ==
    IF Len(msgs) = 0 THEN {}
    ELSE LET fqn == prefix \o "." \o msgs[1].name IN
         { <<fqn, msgs[1]>> } \cup QualifiedUnder(fqn, msgs[1].nested_type)
                             \cup QualifiedUnder(prefix, Tail(msgs))

\* the descriptor index over all the files of a request
DeclaredMessages(req) ==
    UNION { QualifiedUnder("." \o f.package, f.message_type) : f \in Range(req.proto_file) }

\* the message a type reference names
Declared(req, type_name) ==
    (CHOOSE d \in DeclaredMessages(req) : d[1] = type_name)[2]

\* the message-typed members of the oneof groups of a message
MessageVariants(message) ==
    { f \in Range(message.field) : f.oneof_index >= 0 /\ f.type = "Message" }

ConstructorName(message, field) ==
    "new_" \o to_snake_case(message.name) \o "_" \o to_snake_case(field.name)

\* the constructors an artifact holds under a name
ConstructorsNamed(artifact, name) ==
    { d \in Range(artifact.content.decls) : d.kind = "fn" /\ d.name.text = name }

\* the parameter list has one parameter per field of the payload message,
\* named by the snake-cased field name and typed by the code-type projection
ParamsMatch(params, payload) ==
    /\ Len(params) = Len(payload.field)
    /\ \A i \in 1..Len(params) :
          /\ params[i].name.text = to_snake_case(payload.field[i].name)
          /\ params[i].ty.text = OneofFieldToRustType(payload.field[i])

\* C5: every emitted constructor of a message-typed oneof variant takes one
\* parameter per field of the payload message, wherever that message is
\* declared: top level, nested in the enclosing message, or another file.
C5_OneParameterPerPayloadField ==
    TurnGenerated("oneof") =>
        \A a \in 1..Len(generated) : \A m \in AllMessages(proto_file) :
            \A f \in MessageVariants(m) :
                \A c \in ConstructorsNamed(generated[a], ConstructorName(m, f)) :
                    ParamsMatch(c.params, Declared(request, f.type_name))

\* the constructors of the LoginRequest scenario were emitted
C5_Witness ==
    /\ TurnGenerated("oneof") /\ proto_file = LoginFile /\ Len(generated) = 1
    /\ ConstructorsNamed(generated[1], "new_login_request_email") # {}

\* C6: every oneof group of every message of the file, nested messages
\* included, yields its constructors, named after the message that declares
\* the group, and the file yields an artifact.
C6_NestedOneofsGetConstructors ==
    TurnGenerated("oneof") =>
        \A m \in AllMessages(proto_file) : \A f \in MessageVariants(m) :
            /\ Len(generated) = 1
            /\ ConstructorsNamed(generated[1], ConstructorName(m, f)) # {}

\* the file of Container.InnerMessage was processed
C6_Witness == TurnGenerated("oneof") /\ proto_file = NestedFile

\* the file declares oneof groups, none with a message-typed variant
OnlyScalarOrEnumVariants(file) ==
    \A m \in AllMessages(file) : MessageVariants(m) = {}

\* C7: the emitter returns an artifact only if at least one constructor was
\* added; a file whose oneof groups hold only scalar or enum variants (the
\* synthetic groups of explicit-optional fields included) yields none.
C7_NoEmptyArtifact ==
    TurnGenerated("oneof") =>
        /\ \A a \in 1..Len(generated) : Len(generated[a].content.decls) > 0
        /\ OnlyScalarOrEnumVariants(proto_file) => generated = <<>>

\* a file whose only oneof group is the synthetic one of an explicit
\* optional field was processed
C7_Witness ==
    /\ TurnGenerated("oneof")
    /\ proto_file.message_type[1] = CardMessage("User", << "plain", "explicit" >>)

NoOneofAnywhere(file) == \A m \in AllMessages(file) : m.oneof_decl = <<>>

ArtifactNames(files) == { files[i].name : i \in 1..Len(files) }

\* C8: a file in which no message declares a oneof group yields no artifact:
\* generate returns None and process pushes nothing for it.
C8_NoOneofNoArtifact ==
    plugin = "oneof" =>
        /\ (idx > 0 /\ NoOneofAnywhere(proto_file)) => generated = <<>>
        /\ \A k \in 1..idx :
              NoOneofAnywhere(request.proto_file[k]) =>
                  /\ OneofOutputName(request.proto_file[k]) \notin ArtifactNames(response)
                  /\ \A w \in 1..Len(stdout) :
                        OneofOutputName(request.proto_file[k]) \notin ArtifactNames(stdout[w].file)

\* a response was written for a request with a file to generate that has
\* messages but no oneof group, next to a file that has one
C8_Witness ==
    /\ plugin = "oneof" /\ pc = "exit" /\ Len(stdout) = 1
    /\ Len(stdout[1].file) > 0
    /\ \E k \in 1..Len(request.proto_file) :
          /\ ToGenerate(request, request.proto_file[k])
          /\ NoOneofAnywhere(request.proto_file[k])
          /\ Len(request.proto_file[k].message_type) > 0

NoServiceToGenerate(req) ==
    \A f \in Range(req.proto_file) : ToGenerate(req, f) => Len(f.service) = 0

\* C9: when no file to generate declares a service, the service-surface
\* emitter and the API-schema emitter produce no artifact, whatever messages
\* and enums the files declare.
C9_NoServiceNoArtifact ==
    (plugin \in {"openapi", "http"} /\ NoServiceToGenerate(request)) =>
        /\ response = <<>>
        /\ \A w \in 1..Len(stdout) : stdout[w].file = <<>>

\* the API-schema plugin answered a request whose file to generate has
\* messages and enums but no service, while another file of the request has
\* services
C9_Witness ==
    /\ plugin = "openapi" /\ pc = "exit" /\ Len(stdout) = 1
    /\ NoServiceToGenerate(request)
    /\ \E f \in Range(request.proto_file) :
          ToGenerate(request, f) /\ Len(f.message_type) > 0 /\ Len(f.enum_type) > 0
    /\ \E f \in Range(request.proto_file) : Len(f.service) > 0

\* C10: every generated-code artifact of the service-surface and the
\* oneof-constructor emitters parses as a source file of the target
\* language, so generate never takes its unformatted fallback.
C10_ArtifactsParse ==
    (TurnDone("http") \/ TurnDone("oneof")) =>
        \A a \in 1..Len(generated) :
            /\ ParsesAsRust(generated[a].content.decls)
            /\ generated[a].content.rendering = "pretty"

\* a service with a method named Type was emitted
C10_Witness ==
    /\ TurnGenerated("http") /\ Len(generated) = 1
    /\ \E i \in 1..Len(proto_file.service[1].method) :
          proto_file.service[1].method[i].name = "Type"

\* the schema objects of a document's components, with those of their
\* properties and of their array items
SchemaObjects(doc) ==
    LET schemas == doc.components.schemas
        tops == { schemas[k] : k \in DOMAIN schemas }
        props == UNION { { t.properties[n] : n \in DOMAIN t.properties } : t \in tops }
    IN  tops \cup props \cup UNION { Range(q.items) : q \in props }

\* every schema reference that appears in a document: the request body and
\* the success response of each operation, and the schema objects
DocumentRefs(doc) ==
    LET ops == UNION { Range(doc.paths[k].post) : k \in DOMAIN doc.paths } IN
    ({ op.request_body.schema : op \in ops }
        \cup { op.responses["200"].schema : op \in ops }
        \cup { q.reference : q \in SchemaObjects(doc) }) \ { "" }

\* the references a document can resolve: one per key of components.schemas
ResolvableRefs(doc) ==
    { "#/components/schemas/" \o k : k \in DOMAIN doc.components.schemas }

\* C11: every schema reference that appears in an emitted API document
\* (request body, success response, message property, array items) names a
\* key of that document's components.schemas, also when the referenced type
\* is nested in another message or declared in another file of the request.
C11_DocumentIsComplete ==
    TurnGenerated("openapi") =>
        \A a \in 1..Len(generated) :
            DocumentRefs(generated[a].content) \subseteq ResolvableRefs(generated[a].content)

\* a document was emitted for a service whose message has a repeated field
\* of a nested message type, and the document refers to that type
C11_Witness ==
    /\ TurnGenerated("openapi") /\ Len(generated) = 1
    /\ proto_file = RefFile("nested", TRUE, "top")
    /\ "#/components/schemas/Item" \in DocumentRefs(generated[1].content)

\* what one file to generate contributes to the response of the given plugin
ArtifactsOf(p, req, file) ==
    CASE p = "oneof"   -> OneofGenerate(file)
      [] p = "openapi" -> IF Len(file.service) = 0 THEN <<>>
                          ELSE OpenApiGenerate(file, req.proto_file)
      [] p = "http"    -> HttpGenerate(file, req.proto_file)

\* the artifacts of the files to generate, in the order of file_to_generate
InListedOrder(p, req) ==
    Flatten([ i \in 1..Len(req.file_to_generate) |->
                ArtifactsOf(p, req, FileNamed(req, req.file_to_generate[i])) ])

\* C12: the files to generate are processed in the order of the request's
\* file_to_generate list, so the artifacts of the response appear in that
\* order, also when proto_file lists the same files in another order.
C12_ArtifactsInListedOrder ==
    (pc = "exit" /\ result = "ok") =>
        stdout[1].file = InListedOrder(plugin, request)

\* a response with the artifacts of two files was written for a request whose
\* file_to_generate names them in the reverse of their proto_file order
C12_Witness ==
    /\ pc = "exit" /\ result = "ok"
    /\ Len(request.proto_file) = 2 /\ Len(request.file_to_generate) = 2
    /\ request.file_to_generate[1] = request.proto_file[2].name
    /\ \A i \in 1..2 : ArtifactsOf(plugin, request, request.proto_file[i]) # <<>>
    /\ plugin \in {"oneof", "openapi"}

\* C13: the whole request is read (and decoded) before any generation step
\* starts, nothing is written before generation has finished for every
\* entry of the request, and the output stream is written at most once.
C13_ReadGenerateWriteOnce ==
    [][ /\ (idx' # idx) => (pc = "process" /\ stdin = "ok")
        /\ (stdout' # stdout) =>
              /\ pc = "write" /\ idx = Turns
              /\ stdout = <<>> /\ Len(stdout') = 1 ]_vars

\* a response was written after two entries of the request were visited
C13_Witness == pc = "exit" /\ Len(stdout) = 1 /\ idx = 2 /\ Len(stdout[1].file) > 0

\* C14: when generation fails for a file, process returns a GenerationError,
\* nothing is delivered (the artifacts of earlier files included), no later
\* file is processed and nothing is retried.
C14_NoPartialResponse ==
    result = "GenerationError" =>
        /\ pc = "exit"
        /\ stdout = <<>>
        /\ ~ENABLED Next

\* generation failed after artifacts had been produced for an earlier file
C14_Witness ==
    /\ result = "GenerationError" /\ Len(response) > 0
    /\ \E i \in 1..(idx - 1) : ArtifactsOf(plugin, request, request.proto_file[i]) # <<>>

\* the fully-qualified names of the messages (at any depth) and of the
\* top-level enums declared by the files of a request
DeclaredTypeNames(req) ==
    { d[1] : d \in DeclaredMessages(req) }
        \cup UNION { { "." \o f.package \o "." \o e.name : e \in Range(f.enum_type) }
                     : f \in Range(req.proto_file) }

\* the type references a file's services and messages make
TypeReferences(file) ==
    UNION { UNION { { m.input_type, m.output_type } : m \in Range(s.method) }
            : s \in Range(file.service) }
        \cup UNION { { f.type_name : f \in { g \in Range(m.field) : g.type \in {"Message", "Enum"} } }
                     : m \in AllMessages(file) }

\* the references of a file that name nothing declared in the request
UnresolvedReferences(req, file) == TypeReferences(file) \ DeclaredTypeNames(req)

\* C15: when a file with services makes a type reference (method input or
\* output, field type) that names no declared message or enum, the
\* service-surface and API-schema emitters emit nothing for it and the run
\* ends with a generation error.
C15_UnresolvedReferenceIsFatal ==
    ((TurnGenerated("openapi") \/ TurnGenerated("http"))
        /\ Len(proto_file.service) > 0
        /\ UnresolvedReferences(request, proto_file) # {}) =>
            /\ generated = <<>>
            /\ result = "GenerationError"

\* an API document was emitted for a service whose method takes a type that
\* is declared nowhere in the request
C15_Witness ==
    /\ TurnGenerated("openapi") /\ Len(generated) = 1
    /\ proto_file = RefFile("top", FALSE, "missing")
    /\ ".shop.Missing" \in UnresolvedReferences(request, proto_file)

\* the names of a list of artifacts, in order
NamesOf(artifacts) == [ i \in 1..Len(artifacts) |-> artifacts[i].name ]

\* the artifact names the design gives the services of a file, in order
ServiceArtifactNames(p, file) ==
    [ i \in 1..Len(file.service) |->
        IF p = "http" THEN to_snake_case(file.service[i].name) \o ".http.rs"
        ELSE file.service[i].name \o ".openapi.yaml" ]

\* C16: for every generated file the service-surface emitter returns one
\* artifact per declared service named <snake_case(service)>.http.rs and the
\* API-schema emitter one per declared service named <service>.openapi.yaml,
\* in service declaration order.
C16_OneArtifactPerService ==
    ((TurnGenerated("http") \/ TurnGenerated("openapi")) /\ result # "GenerationError") =>
        /\ NamesOf(generated) = ServiceArtifactNames(plugin, proto_file)
        /\ proto_file = ApiFile =>
              NamesOf(generated) =
                  IF plugin = "http"
                  THEN << "user_service.http.rs", "admin_service.http.rs" >>
                  ELSE << "UserService.openapi.yaml", "AdminService.openapi.yaml" >>

\* the API-schema emitter returned the documents of a file with two services
C16_Witness ==
    /\ TurnGenerated("openapi") /\ result # "GenerationError"
    /\ proto_file = ApiFile /\ Len(generated) = 2

StartsWith(s, prefix) == Len(s) >= Len(prefix) /\ SubSeq(s, 1, Len(prefix)) = prefix

RECURSIVE LeadingContainers(_)
\* the containers a type text opens with, outermost first
LeadingContainers(ty) ==
    IF StartsWith(ty, "Option<")
    THEN << "Option" >> \o LeadingContainers(SubSeq(ty, 8, Len(ty)))
    ELSE IF StartsWith(ty, "Vec<")
    THEN << "Vec" >> \o LeadingContainers(SubSeq(ty, 5, Len(ty)))
    ELSE <<>>

\* the containers wrapped around the base type of a field: those the text
\* opens with, less the Vec that is the base type of a bytes field (Vec<u8>)
WrappersAroundBase(field, ty) ==
    LET all == LeadingContainers(ty) IN
    IF field.type = "Bytes" THEN SubSeq(all, 1, Len(all) - 1) ELSE all

\* what the two resolvers have returned for the field so far
Projections == Range(mapped_type.core) \cup Range(mapped_type.oneof)

\* C17: no code-type projection wraps a field in both a sequence container
\* and an optional container, whatever the label and the proto3_optional
\* flag (repeated with proto3_optional included): at most one wrapper
\* surrounds the base type.
C17_NeverBothWrappers ==
    \A ty \in Projections :
        /\ Len(WrappersAroundBase(mapped_field, ty)) <= 1
        /\ ~({"Option", "Vec"} \subseteq Range(WrappersAroundBase(mapped_field, ty)))

\* both resolvers were applied to a repeated field that carries the proto3
\* optional marker
C17_Witness ==
    /\ mapped_field.label = "Repeated" /\ mapped_field.proto3_optional
    /\ mapped_type.core # <<>> /\ mapped_type.oneof # <<>>

\* C18: the identifier-case projections are idempotent: applying
\* message_name_to_rust, field_name_to_rust or method_name_to_rust to its
\* own result gives that result again.
C18_CaseProjectionsIdempotent ==
    cased_name.twice # <<>> => cased_name.twice = cased_name.once

\* message_name_to_rust was applied twice to a snake-case identifier
C18_Witness ==
    /\ cased_ident = "user_info" /\ cased_name.projection = "message_name_to_rust"
    /\ cased_name.once = << "UserInfo" >> /\ cased_name.twice # <<>>

\* the wrappers the design gives a field: a sequence for a repeated field,
\* an optional for an explicitly-optional one, none otherwise
DesignWrappers(field) ==
    IF field.label = "Repeated" THEN << "Vec" >>
    ELSE IF field.proto3_optional THEN << "Option" >>
    ELSE <<>>

\* C19: every code-type projection (TypeMapper's and the oneof emitter's)
\* wraps the base type in Option exactly for explicitly-optional fields, in
\* Vec exactly for repeated fields, and leaves other singular fields bare; a
\* plain proto3 string field (label Optional, no marker) projects to String.
C19_WrapperFollowsCardinality ==
    \A ty \in Projections :
        /\ WrappersAroundBase(mapped_field, ty) = DesignWrappers(mapped_field)
        /\ (mapped_field.type = "String" /\ mapped_field.label = "Optional"
              /\ ~mapped_field.proto3_optional) => ty = "String"

\* TypeMapper was applied to a plain proto3 string field
C19_Witness ==
    /\ mapped_field = Fld("test", "String", "", "Optional", FALSE, -1)
    /\ mapped_type.core # <<>>

\* the scalar mapping the resolver's tests state
TestedScalars ==
    [ t \in {"Double", "Float", "Int64", "Uint64", "Int32", "Bool", "String", "Bytes"} |->
        CASE t = "Double" -> "f64"  [] t = "Float"  -> "f32"
          [] t = "Int64"  -> "i64"  [] t = "Uint64" -> "u64"
          [] t = "Int32"  -> "i32"  [] t = "Bool"   -> "bool"
          [] t = "String" -> "String" [] t = "Bytes" -> "Vec<u8>" ]

\* C20: TypeMapper::field_to_rust_type gives the bare base type for label
\* Required, Option<base> for label Optional and Vec<base> for label
\* Repeated, where base is the fixed scalar mapping and, for a message-typed
\* field, the type_name verbatim (.example.User stays .example.User).
C20_TypeMapperByLabel ==
    \A ty \in Range(mapped_type.core) :
        (mapped_field.type \in DOMAIN TestedScalars
            \/ (mapped_field.type = "Message" /\ mapped_field.type_name # "")) =>
            LET base == IF mapped_field.type = "Message" THEN mapped_field.type_name
                        ELSE TestedScalars[mapped_field.type]
            IN  ty = CASE mapped_field.label = "Required" -> base
                       [] mapped_field.label = "Optional" -> "Option<" \o base \o ">"
                       [] mapped_field.label = "Repeated" -> "Vec<" \o base \o ">"

\* TypeMapper returned .example.User for a required message-typed field
C20_Witness ==
    /\ mapped_field = Fld("test", "Message", ".example.User", "Required", FALSE, -1)
    /\ mapped_type.core = << ".example.User" >>

\* the table of the design: <<type, format>> of every scalar field type
DesignScalarSchema ==
    [ t \in FieldTypes \ {"Message", "Enum", "Group"} |->
        CASE t = "Float"  -> << "number", "float" >>
          [] t = "Double" -> << "number", "double" >>
          [] t \in {"Int32", "Uint32", "Sint32", "Fixed32", "Sfixed32"} -> << "integer", "int32" >>
          [] t \in {"Int64", "Uint64", "Sint64", "Fixed64", "Sfixed64"} -> << "integer", "int64" >>
          [] t = "Bool"   -> << "boolean", "" >>
          [] t = "String" -> << "string", "" >>
          [] t = "Bytes"  -> << "string", "byte" >> ]

\* the short name of a type reference: .example.User is User
ShortName(type_name) ==
    IF type_name = ".example.User" THEN "User" ELSE type_name

\* a schema with nothing but a type, a format and a reference
IsPlain(schema) ==
    /\ schema.items = <<>> /\ ~schema.has_properties /\ schema.required = <<>>
    /\ ~schema.has_enum

\* the schema of a singular field is what the table of the design states
MatchesDesignTable(field, schema) ==
    /\ IsPlain(schema)
    /\ CASE field.type \in {"Message", "Enum"} ->
                /\ schema.schema_type = "" /\ schema.format = ""
                /\ schema.reference = "#/components/schemas/" \o ShortName(field.type_name)
         [] field.type = "Group" ->
                schema.schema_type = "object" /\ schema.format = "" /\ schema.reference = ""
         [] OTHER ->
                /\ << schema.schema_type, schema.format >> = DesignScalarSchema[field.type]
                /\ schema.reference = ""

\* C21: field_to_schema maps every field type as the table of the design
\* states (floats to number, the 32-bit and 64-bit integer variants to
\* integer/int32 and integer/int64, bool, string, bytes to string/byte,
\* message and enum to a $ref with no type, group to an untyped object), and
\* a repeated field yields an array whose items is the schema of the same
\* field taken as singular.
C21_SchemaTypeTable ==
    \A schema \in Range(mapped_type.schema) :
        IF mapped_field.label = "Repeated"
        THEN /\ schema.schema_type = "array" /\ schema.format = "" /\ schema.reference = ""
             /\ Len(schema.items) = 1
             /\ MatchesDesignTable(mapped_field, schema.items[1])
             /\ schema.items[1] = FieldToSchema([ mapped_field EXCEPT !.label = "Optional" ])
        ELSE MatchesDesignTable(mapped_field, schema)

\* field_to_schema was applied to a repeated unsigned 32-bit field
C21_Witness ==
    /\ mapped_field.type = "Uint32" /\ mapped_field.label = "Repeated"
    /\ mapped_type.schema # <<>>

\* the header validation steps of a service-surface artifact
MiddlewareOf(artifact) ==
    SelectIdx(artifact.content.decls,
              LAMBDA i : artifact.content.decls[i].kind = "middleware")

\* the names of the headers flagged required, in declaration order
RequiredHeaderNames(service) ==
    LET required == SelectIdx(service.headers, LAMBDA i : service.headers[i].required)
    IN  [ i \in 1..Len(required) |-> required[i].name ]

\* C22: the service-surface emitter emits the header validation step
\* validate_headers for a service exactly when header metadata is present for
\* it, and the step holds a check naming header h exactly when h is flagged
\* required; a service without header metadata yields no validation step.
C22_HeaderValidationFollowsMetadata ==
    TurnGenerated("http") =>
        \A s \in 1..Len(generated) :
            LET service == proto_file.service[s]
                steps == MiddlewareOf(generated[s])
            IN  IF service.headers = <<>>
                THEN steps = <<>>
                ELSE /\ Len(steps) = 1
                     /\ steps[1].name.text = "validate_headers"
                     /\ [ i \in 1..Len(steps[1].validations) |->
                            steps[1].validations[i].text ] = RequiredHeaderNames(service)

\* the service surface of a service with a required X-Api-Key and an optional
\* X-Trace-Id header was generated
C22_Witness ==
    /\ TurnGenerated("http") /\ Len(generated) = 1
    /\ proto_file.service[1].headers
           = << HeaderConfig("X-Api-Key", TRUE), HeaderConfig("X-Trace-Id", FALSE) >>

\* a service without header metadata gets no validation step
C22_NoMetadataNoStep ==
    TurnGenerated("http") =>
        \A s \in 1..Len(generated) :
            proto_file.service[s].headers = <<>> => MiddlewareOf(generated[s]) = <<>>

\* the capability contract of a service-surface artifact: its first item
TraitOf(artifact) == artifact.content.decls[artifact.content.n_imports + 1]

\* C23: a service with zero methods still yields one service-surface artifact
\* holding the empty capability contract <Service>Server and the registration
\* function register_<snake_case(service)>_server with no routes; the emitter
\* yields nothing for a file only when the file declares zero services.
C23_EmptyServiceStillEmitted ==
    TurnGenerated("http") =>
        /\ Len(generated) = Len(proto_file.service)
        /\ (generated = <<>>) <=> (Len(proto_file.service) = 0)
        /\ \A s \in 1..Len(proto_file.service) :
               LET service == proto_file.service[s] IN
               Len(service.method) = 0 =>
                   /\ Len(generated[s].content.decls) = generated[s].content.n_imports + 2
                   /\ TraitOf(generated[s]).kind = "trait"
                   /\ TraitOf(generated[s]).name.text = service.name \o "Server"
                   /\ TraitOf(generated[s]).methods = <<>>
                   /\ RouterOf(generated[s]).kind = "router"
                   /\ RouterOf(generated[s]).name.text
                          = "register_" \o to_snake_case(service.name) \o "_server"
                   /\ RouterOf(generated[s]).routes = <<>>

\* the service surface of a file whose only service has no method was
\* generated
C23_Witness ==
    /\ TurnGenerated("http") /\ Len(proto_file.service) = 1
    /\ proto_file.service[1].method = <<>>
    /\ Len(generated) = 1

\* what one turn of a run of plugin p on request req gets for a file, in a
\* process whose RandomState drew keys
TurnArtifacts(p, req, file, keys) ==
    CASE p = "oneof"   -> OneofProcessFile(req, file)
      [] p = "openapi" -> IF ~ToGenerate(req, file) \/ Len(file.service) = 0 THEN <<>>
                          ELSE OpenApiGenerateKeyed(file, req.proto_file, keys)
      [] p = "http"    -> HttpProcessFile(req, file)

\* C24: generation is deterministic: a second run of the same plugin on the
\* same request, whatever keys its hash maps draw, returns for every file the
\* artifacts of this run, with the same names and byte-identical contents,
\* API documents included.
C24_GenerationIsDeterministic ==
    (TurnGenerated(plugin) /\ result # "GenerationError") =>
        \A keys \in HashSeeds :
            generated = TurnArtifacts(plugin, request, proto_file, keys)

\* an API document was written for a service with a method, so a map with
\* three responses was serialized
C24_Witness ==
    /\ TurnGenerated("openapi") /\ result # "GenerationError"
    /\ Len(generated) > 0
    /\ generated[1].content.responses_written \in Range(ResponseOrders)
    /\ DOMAIN generated[1].content.paths # {}

\* the constructor and service-surface emitters build no hash map: their
\* artifacts are the same in every run
C24_DeterministicWithoutHashMaps ==
    (plugin \in {"oneof", "http"} /\ TurnGenerated(plugin)) =>
        \A keys \in HashSeeds :
            generated = TurnArtifacts(plugin, request, proto_file, keys)

\* the request that lists a file alone, to generate
Alone(file) == Req(<< file >>, << file.name >>)

\* C25: the artifacts produced for a file are those a run on that file alone
\* produces, whichever other files the request lists and in whatever order:
\* generating [A, B] yields for A exactly what generating [A] yields.
C25_PerFileIndependence ==
    (TurnGenerated(plugin) /\ result # "GenerationError") =>
        \A keys \in HashSeeds :
            generated = TurnArtifacts(plugin, Alone(proto_file), proto_file, keys)

\* the API-schema plugin generated the documents of a file listed with
\* another file to generate
C25_Witness ==
    /\ TurnGenerated("openapi") /\ result # "GenerationError"
    /\ Len(request.proto_file) = 2 /\ Len(request.file_to_generate) = 2
    /\ Len(generated) > 0

\* apart from the order the hash maps hand their keys out in, no artifact
\* depends on the other files of the request
C25_IndependentUnderSameKeys ==
    (TurnGenerated(plugin) /\ result # "GenerationError") =>
        generated = TurnArtifacts(plugin, Alone(proto_file), proto_file, hash_keys)

\* the files of a request that are present only for cross-file resolution
ResolutionOnly(req) == { f \in Range(req.proto_file) : ~ToGenerate(req, f) }

\* the artifact names the files marked to generate can give
NamesToGenerate(p, req, keys) ==
    UNION { Range(NamesOf(TurnArtifacts(p, Alone(f), f, keys)))
            : f \in { g \in Range(req.proto_file) : ToGenerate(req, g) } }

\* C26: artifacts are produced only for files marked to generate: the turn of
\* a file present only for cross-file resolution adds nothing to the
\* response, and every artifact of the written response is an artifact of a
\* file marked to generate.
C26_OnlyFilesToGenerate ==
    /\ (TurnDone(plugin) /\ ~ToGenerate(request, proto_file)) =>
           (generated = <<>> /\ result # "GenerationError")
    /\ (pc = "exit" /\ result = "ok") =>
           /\ Range(NamesOf(stdout[1].file)) \subseteq NamesToGenerate(plugin, request, hash_keys)
           /\ Len(stdout[1].file)
                  = Len(Flatten([ i \in 1..Len(request.proto_file) |->
                          IF ToGenerate(request, request.proto_file[i])
                          THEN TurnArtifacts(plugin, request, request.proto_file[i], hash_keys)
                          ELSE <<>> ]))

\* the oneof plugin passed over a file that declares a oneof group and is in
\* the request only for cross-file resolution, and answered
C26_Witness ==
    /\ plugin = "oneof" /\ pc = "exit" /\ result = "ok"
    /\ \E f \in ResolutionOnly(request) : HasOneofs(f)

\* the operation a document files for a method, none when the path is absent
\* or holds the operation of another method
OperationOf(document, service, method) ==
    IF OpenApiMethodPath(method) \notin DOMAIN document.paths THEN <<>>
    ELSE SelectSeq(document.paths[OpenApiMethodPath(method)].post,
                   LAMBDA o : o.operation_id = service.name \o "_" \o method.name)

\* C27: every API document holds exactly one path entry per method of its
\* service: paths has as many keys as the service has methods and no
\* method's operation is overwritten, also when two method names have the
\* same snake-cased form.
C27_OnePathPerMethod ==
    (TurnGenerated("openapi") /\ result # "GenerationError") =>
        \A s \in 1..Len(generated) :
            LET service == proto_file.service[s]
                document == generated[s].content
            IN  /\ Cardinality(DOMAIN document.paths) = Len(service.method)
                /\ \A i \in 1..Len(service.method) :
                       Len(OperationOf(document, service, service.method[i])) = 1

\* the document of a service declaring GetUser and then getUser was generated
C27_Witness ==
    /\ TurnGenerated("openapi") /\ result # "GenerationError"
    /\ Len(generated) = 1
    /\ [ i \in 1..Len(proto_file.service[1].method) |-> proto_file.service[1].method[i].name ]
           = << "GetUser", "getUser" >>

\* methods whose names differ after snake-casing each keep their path entry
C27_OnePathPerSnakeName ==
    (TurnGenerated("openapi") /\ result # "GenerationError") =>
        \A s \in 1..Len(generated) :
            LET service == proto_file.service[s] IN
            Cardinality(DOMAIN generated[s].content.paths)
                = Cardinality({ to_snake_case(m.name) : m \in Range(service.method) })

\* the scan of the design: the top-level messages of the file from the i-th
\* on, in declaration order, up to the first whose name is a suffix of the
\* type reference; <<>> when there is none
RECURSIVE ScanFrom(_, _, _)
ScanFrom(file, type_name, i) ==
    IF i > Len(file.message_type) THEN <<>>
    ELSE IF EndsWith(type_name, file.message_type[i].name)
         THEN << file.message_type[i] >>
         ELSE ScanFrom(file, type_name, i + 1)

\* the parameter names of the constructors an artifact holds under a name
ParamNames(artifact, name) ==
    { [ i \in 1..Len(c.params) |-> c.params[i].name.text ]
      : c \in ConstructorsNamed(artifact, name) }

\* C28: the oneof emitter resolves a payload type by scanning the messages
\* of the current file in declaration order and taking the first whose name
\* is a suffix of the type reference: with Auth declared before EmailAuth
\* the constructor of a variant typed EmailAuth takes the fields of Auth.
C28_FirstSuffixMatchWins ==
    TurnGenerated("oneof") =>
        /\ \A a \in 1..Len(generated) : \A m \in Range(proto_file.message_type) :
               \A f \in MessageVariants(m) :
                   LET found == ScanFrom(proto_file, f.type_name, 1)
                       made == ConstructorsNamed(generated[a], ConstructorName(m, f))
                   IN  /\ made # {}
                       /\ \A c \in made :
                              IF found = <<>> THEN c.params = <<>>
                              ELSE ParamsMatch(c.params, found[1])
        /\ proto_file = SuffixFile(TRUE) =>
               ParamNames(generated[1], "new_login_request_email") = { << "token" >> }
        /\ proto_file = SuffixFile(FALSE) =>
               ParamNames(generated[1], "new_login_request_email")
                   = { << "email", "password" >> }

\* the constructors of a file declaring Auth before EmailAuth were emitted
C28_Witness ==
    /\ TurnGenerated("oneof") /\ proto_file = SuffixFile(TRUE)
    /\ Len(generated) = 1
    /\ ConstructorsNamed(generated[1], "new_login_request_email") # {}

\* the token streams the calls of one kind handed over, in call order
Handed(op) ==
    LET made == SelectSeq(calls, LAMBDA c : c.op = op)
    IN  [ i \in 1..Len(made) |-> made[i].tokens ]

\* C29: CodeGenerator::generate is total and order-preserving: it returns a
\* text whatever was added, all imports precede all items, imports and items
\* each keep the order of their add calls, and the text is the pretty-printed
\* form when the raw rendering parses and the raw rendering otherwise.
C29_GenerateTotalAndOrdered ==
    /\ (pc = "codegen" /\ code_text = <<>>) => ENABLED Generate
    /\ \A text \in Range(code_text) :
          /\ text.decls = Handed("add_import") \o Handed("add_item")
          /\ text.n_imports = Len(Handed("add_import"))
          /\ text.rendering
                 = IF \A c \in Range(calls) : ItemParses(c.tokens) THEN "pretty" ELSE "raw"

\* generate ran after an item was added before an import, and after an item
\* that does not parse
C29_Witness ==
    /\ code_text # <<>> /\ Len(calls) = 3
    /\ calls[1].op = "add_item" /\ calls[2].op = "add_import"
    /\ calls[3].op = "add_item" /\ ~ItemParses(calls[3].tokens)
    /\ code_text[1].rendering = "raw"

\* the services of the files marked to generate, file by file
ServicesToGenerate(req) ==
    Flatten([ i \in 1..Len(req.proto_file) |->
                IF ToGenerate(req, req.proto_file[i]) THEN req.proto_file[i].service
                ELSE <<>> ])

\* C30: within one response the artifact names are pairwise distinct, also
\* when two services, of one file or of two generated files, have names with
\* the same snake-cased form or the same name in different packages.
C30_ArtifactNamesDistinct ==
    (pc = "exit" /\ result = "ok") => Distinct(NamesOf(stdout[1].file))

\* the service-surface plugin answered for a file declaring UserService and
\* userService
C30_Witness ==
    /\ plugin = "http" /\ pc = "exit" /\ result = "ok"
    /\ request = Req(<< TwinFile >>, << "twin.proto" >>)
    /\ Len(stdout[1].file) = 2

\* the names are distinct whenever the services to generate have pairwise
\* distinct snake-cased names
C30_DistinctForDistinctServices ==
    LET services == ServicesToGenerate(request) IN
    (/\ pc = "exit" /\ result = "ok"
     /\ Distinct([ i \in 1..Len(services) |-> to_snake_case(services[i].name) ]))
        => Distinct(NamesOf(stdout[1].file))

====
